---------------------------- MODULE Spec2Model ----------------------------
(***************************************************************************)
(* A model of the rustty terminal emulation core: the cell grid with       *)
(* scrollback and alternate screen (terminal/grid.rs), the emulator that   *)
(* consumes the VTE parser's events (terminal/mod.rs, terminal/command.rs, *)
(* terminal/state.rs) and the tail of the session pump (session.rs).       *)
(*                                                                         *)
(* Row and column indices are zero-based as in the source; TLA+ sequences  *)
(* are one-based, so cells[r + 1][c + 1] is the source's cells[r][c].      *)
(***************************************************************************)
EXTENDS Integers, Sequences, FiniteSets

VARIABLES
    state,              \* Terminal::state, the TerminalState record
    pending_responses,  \* Terminal::pending_responses, oldest first
    fault,              \* "none", or how the last operation failed
    entry,              \* history: primary screen as it was when the alternate screen was entered
    hist,               \* history: the mode operations processed since creation (ModeSpec),
                        \* the last CSI sequence that carried an explicit 0 (CsiSpec),
                        \* the log of chunks, responses and writes (SessionSpec),
                        \* the one operation ingested last (LineSpec, CellSpec, SgrSpec)
    session             \* TerminalSession: its Shell (master, channel, reader thread),
                        \* the position of process_output, and the child on the PTY

vars == <<state, pending_responses, fault, entry, hist, session>>

----------------------------------------------------------------------------
(* Bounds of the model.                                                    *)

\* widest terminal a resize may ask for
MaxCols == 2
\* tallest terminal a resize may ask for
MaxRows == 3
\* TerminalGrid::max_scrollback, 10000 in the source, scaled down so that
\* the scrollback cap is reached
MaxScrollback == 4
\* largest numeric CSI parameter fed to the emulator
MaxParam == 2
\* longest recorded history of DEC private mode operations
MaxHist == 2
\* parameter fields written in one CSI sequence
MaxFields == 2

\* usize arithmetic wraps modulo 2^64 in a release build; TLC's integers
\* are 32 bits wide, so the modulus is scaled to 2^30.  Only the order of a
\* wrapped value against a row index is ever observed.
UsizeModulus == 1073741824

Min(a, b) == IF a < b THEN a ELSE b
Max(a, b) == IF a > b THEN a ELSE b

\* usize::saturating_sub
saturating_sub(a, b) == IF a > b THEN a - b ELSE 0

----------------------------------------------------------------------------
(* Colours and cells (terminal/color.rs, terminal/grid.rs).                *)

white == <<255, 255, 255>>
black == <<0, 0, 0>>

DefaultCell ==
    [ch |-> " ", fg |-> white, bg |-> black,
     bold |-> FALSE, italic |-> FALSE, underline |-> FALSE, reverse |-> FALSE]

\* vec![Cell::default(); width]
BlankRow(width) == [i \in 1..width |-> DefaultCell]

\* Vec::insert(index, x) for index <= len
VecInsert(v, index, x) ==
    SubSeq(v, 1, index) \o <<x>> \o SubSeq(v, index + 1, Len(v))

\* Vec::remove(index) for index < len
VecRemove(v, index) ==
    SubSeq(v, 1, index) \o SubSeq(v, index + 2, Len(v))

\* Vec::resize(new_len, x)
VecResize(v, new_len, x) ==
    IF new_len <= Len(v) THEN SubSeq(v, 1, new_len)
    ELSE v \o [i \in 1..(new_len - Len(v)) |-> x]

----------------------------------------------------------------------------
(* TerminalGrid (terminal/grid.rs).                                        *)

TerminalGrid_new(width, viewport_height) ==
    [width |-> width,
     viewport_height |-> viewport_height,
     cells |-> [r \in 1..viewport_height |-> BlankRow(width)],
     viewport_start |-> 0,
     alternate_cells |-> [r \in 1..viewport_height |-> BlankRow(width)],
     alternate_viewport_start |-> 0,
     use_alternate_screen |-> FALSE,
     scroll_top |-> 0,
     scroll_bottom |-> saturating_sub(viewport_height, 1)]

\* cells.drain(0..excess) with viewport_start pulled back, when the row
\* count exceeds max_scrollback
TrimScrollback(g) ==
    IF Len(g.cells) > MaxScrollback
    THEN LET excess == Len(g.cells) - MaxScrollback
         IN [g EXCEPT !.cells = SubSeq(g.cells, excess + 1, Len(g.cells)),
                      !.viewport_start = saturating_sub(g.viewport_start, excess)]
    ELSE g

put_cell(g, cell, row, col) ==
    LET grown == IF row >= Len(g.cells)
                 THEN g.cells \o [i \in 1..(row + 1 - Len(g.cells)) |-> BlankRow(g.width)]
                 ELSE g.cells
        written == IF col < g.width
                   THEN [grown EXCEPT ![row + 1][col + 1] = cell]
                   ELSE grown
    IN TrimScrollback([g EXCEPT !.cells = written])

clear_line(g, row) ==
    IF row < Len(g.cells)
    THEN [g EXCEPT !.cells[row + 1] = [c \in 1..Len(g.cells[row + 1]) |-> DefaultCell]]
    ELSE g

clear_viewport(g) ==
    LET end == Min(g.viewport_start + g.viewport_height, Len(g.cells))
    IN [g EXCEPT !.cells =
            [r \in 1..Len(g.cells) |->
                IF r - 1 >= g.viewport_start /\ r - 1 < end
                THEN [c \in 1..Len(g.cells[r]) |-> DefaultCell]
                ELSE g.cells[r]]]

viewport_to_end(g) ==
    IF Len(g.cells) > g.viewport_height
    THEN [g EXCEPT !.viewport_start = Len(g.cells) - g.viewport_height]
    ELSE [g EXCEPT !.viewport_start = 0]

\* the slice cells[start..end]; indexing panics when start > end
get_viewport_in_range(g) ==
    g.viewport_start <= Min(g.viewport_start + g.viewport_height, Len(g.cells))

get_viewport(g) ==
    SubSeq(g.cells, g.viewport_start + 1,
           Min(g.viewport_start + g.viewport_height, Len(g.cells)))

use_alternate_screen(g) ==
    IF ~g.use_alternate_screen
    THEN [g EXCEPT !.cells = g.alternate_cells,
                   !.alternate_cells = g.cells,
                   !.viewport_start = g.alternate_viewport_start,
                   !.alternate_viewport_start = g.viewport_start,
                   !.use_alternate_screen = TRUE]
    ELSE g

\* use_main_screen that swaps the buffers but keeps the viewport offset
use_main_screen_KeepViewport(g) ==
    IF g.use_alternate_screen
    THEN [g EXCEPT !.cells = g.alternate_cells,
                   !.alternate_cells = g.cells,
                   !.use_alternate_screen = FALSE]
    ELSE g

use_main_screen(g) ==
    IF g.use_alternate_screen
    THEN [g EXCEPT !.cells = g.alternate_cells,
                   !.alternate_cells = g.cells,
                   !.viewport_start = g.alternate_viewport_start,
                   !.alternate_viewport_start = g.viewport_start,
                   !.use_alternate_screen = FALSE]
    ELSE g

\* the loops that push default rows until a buffer has viewport_height rows
GrowRows(rows, width, viewport_height) ==
    IF Len(rows) < viewport_height
    THEN rows \o [i \in 1..(viewport_height - Len(rows)) |-> BlankRow(width)]
    ELSE rows

\* grid.resize that forgets to resize the rows of the alternate screen
grid_resize_PrimaryOnly(g, new_width, new_viewport_height) ==
    LET widened(rows) ==
            IF new_width # g.width
            THEN [r \in 1..Len(rows) |-> VecResize(rows[r], new_width, DefaultCell)]
            ELSE rows
        g1 == [g EXCEPT !.viewport_height = new_viewport_height,
                        !.cells = widened(g.cells),
                        !.width = new_width]
        g2 == [g1 EXCEPT !.cells = GrowRows(g1.cells, g1.width, g1.viewport_height),
                         !.alternate_cells =
                             GrowRows(g1.alternate_cells, g1.width, g1.viewport_height)]
        g3 == viewport_to_end(g2)
    IN [g3 EXCEPT !.scroll_top = 0,
                  !.scroll_bottom = saturating_sub(g3.viewport_height, 1)]

\* grid.resize that leaves the scrolling region as it is
grid_resize_KeepsMargins(g, new_width, new_viewport_height) ==
    LET widened(rows) ==
            IF new_width # g.width
            THEN [r \in 1..Len(rows) |-> VecResize(rows[r], new_width, DefaultCell)]
            ELSE rows
        g1 == [g EXCEPT !.viewport_height = new_viewport_height,
                        !.cells = widened(g.cells),
                        !.alternate_cells = widened(g.alternate_cells),
                        !.width = new_width]
        g2 == [g1 EXCEPT !.cells = GrowRows(g1.cells, g1.width, g1.viewport_height),
                         !.alternate_cells =
                             GrowRows(g1.alternate_cells, g1.width, g1.viewport_height)]
    IN viewport_to_end(g2)

grid_resize(g, new_width, new_viewport_height) ==
    LET widened(rows) ==
            IF new_width # g.width
            THEN [r \in 1..Len(rows) |-> VecResize(rows[r], new_width, DefaultCell)]
            ELSE rows
        g1 == [g EXCEPT !.viewport_height = new_viewport_height,
                        !.cells = widened(g.cells),
                        !.alternate_cells = widened(g.alternate_cells),
                        !.width = new_width]
        g2 == [g1 EXCEPT !.cells = GrowRows(g1.cells, g1.width, g1.viewport_height),
                         !.alternate_cells =
                             GrowRows(g1.alternate_cells, g1.width, g1.viewport_height)]
        g3 == viewport_to_end(g2)
    IN [g3 EXCEPT !.scroll_top = 0,
                  !.scroll_bottom = saturating_sub(g3.viewport_height, 1)]

\* set_scroll_region that stores the margins without validating them
set_scroll_region_Unchecked(g, top, bottom) ==
    [g EXCEPT !.scroll_top = top, !.scroll_bottom = bottom]

set_scroll_region(g, top, bottom) ==
    IF top < bottom /\ bottom < g.viewport_height
    THEN [g EXCEPT !.scroll_top = top, !.scroll_bottom = bottom]
    ELSE g

reset_scroll_region(g) ==
    [g EXCEPT !.scroll_top = 0,
              !.scroll_bottom = saturating_sub(g.viewport_height, 1)]

\* count times: remove the row at index pos when it exists
RECURSIVE RemoveAtBottom(_, _, _)
RemoveAtBottom(rows, pos, count) ==
    IF count = 0 THEN rows
    ELSE RemoveAtBottom(IF pos < Len(rows) THEN VecRemove(rows, pos) ELSE rows,
                        pos, count - 1)

\* count times: insert a default row at index pos (pos <= len)
RECURSIVE InsertBlank(_, _, _, _)
InsertBlank(rows, pos, width, count) ==
    IF count = 0 THEN rows
    ELSE InsertBlank(VecInsert(rows, pos, BlankRow(width)), pos, width, count - 1)

\* Vec::insert panics when the index is past the end
insert_lines_in_range(g, row, count) ==
    \/ row < g.scroll_top
    \/ row > g.scroll_bottom
    \/ LET c == Min(count, g.scroll_bottom - row + 1)
           abs_row == g.viewport_start + row
       IN abs_row <= Len(RemoveAtBottom(g.cells, abs_row + g.scroll_bottom - row, c))

insert_lines(g, row, count) ==
    IF row < g.scroll_top \/ row > g.scroll_bottom THEN g
    ELSE LET c == Min(count, g.scroll_bottom - row + 1)
             abs_row == g.viewport_start + row
             removed == RemoveAtBottom(g.cells, abs_row + g.scroll_bottom - row, c)
         IN [g EXCEPT !.cells = InsertBlank(removed, abs_row, g.width, c)]

\* count times: remove the row at abs_row while the region's bottom row exists
RECURSIVE RemoveAtCursor(_, _, _, _)
RemoveAtCursor(rows, abs_row, bottom_pos, count) ==
    IF count = 0 THEN rows
    ELSE RemoveAtCursor(
            IF abs_row < Len(rows) /\ bottom_pos < Len(rows)
            THEN VecRemove(rows, abs_row) ELSE rows,
            abs_row, bottom_pos, count - 1)

\* count times: insert a default row at insert_pos when insert_pos <= len
RECURSIVE InsertAtBottom(_, _, _, _)
InsertAtBottom(rows, insert_pos, width, count) ==
    IF count = 0 THEN rows
    ELSE InsertAtBottom(
            IF insert_pos <= Len(rows)
            THEN VecInsert(rows, insert_pos, BlankRow(width)) ELSE rows,
            insert_pos, width, count - 1)

delete_lines(g, row, count) ==
    IF row < g.scroll_top \/ row > g.scroll_bottom THEN g
    ELSE LET c == Min(count, g.scroll_bottom - row + 1)
             abs_row == g.viewport_start + row
             bottom_pos == abs_row + g.scroll_bottom - row
             removed == RemoveAtCursor(g.cells, abs_row, bottom_pos, c)
         IN [g EXCEPT !.cells = InsertAtBottom(removed, bottom_pos, g.width, c)]

----------------------------------------------------------------------------
(* Cursor and TerminalState (terminal/cursor.rs, terminal/state.rs).       *)

Cursor_at_origin == [row |-> 0, col |-> 0, visible |-> TRUE, style |-> "Block"]

\* TerminalState::new.  state.rs initialises the flags up to
\* mouse_cell_motion; the three flags terminal/mod.rs also uses
\* (mouse_all_motion, mouse_urxvt, synchronized_output) are not among
\* them; they start reset here, like every other mouse flag.
TerminalState_new(cols, rows) ==
    [grid |-> TerminalGrid_new(cols, rows),
     cursor |-> Cursor_at_origin,
     fg |-> white,
     bg |-> black,
     bold |-> FALSE,
     italic |-> FALSE,
     underline |-> FALSE,
     reverse |-> FALSE,
     auto_wrap |-> TRUE,
     bracketed_paste |-> FALSE,
     application_cursor_keys |-> FALSE,
     show_cursor |-> TRUE,
     cursor_blink |-> FALSE,
     mouse_sgr |-> FALSE,
     focus_events |-> FALSE,
     mouse_tracking |-> FALSE,
     mouse_cell_motion |-> FALSE,
     mouse_all_motion |-> FALSE,
     mouse_urxvt |-> FALSE,
     synchronized_output |-> FALSE]

\* Terminal::new
Terminal_new(cols, rows) ==
    [state |-> TerminalState_new(cols, rows),
     pending_responses |-> <<>>,
     fault |-> "none"]

----------------------------------------------------------------------------
(* CSI parameters.  The VTE parser hands csi_dispatch a non-empty list of  *)
(* parameter groups; a group is the non-empty list of a parameter's        *)
(* ':'-separated sub-parameters, and an empty field arrives as 0.          *)

\* Terminal::param_or: params.iter().nth(index).first() or the default
Terminal_param_or(params, index, default) ==
    IF index < Len(params) THEN params[index + 1][1] ELSE default

\* CsiCommand::param_or that takes an explicit 0 as the value 0
CsiCommand_param_or_ZeroIsValue(params, index, default) ==
    IF index < Len(params) THEN params[index + 1][1] ELSE default

\* CsiCommand::param_or: as above, and 0 also means the default
CsiCommand_param_or(params, index, default) ==
    IF index < Len(params) /\ params[index + 1][1] # 0
    THEN params[index + 1][1]
    ELSE default

\* EraseMode::from_param
EraseMode_from_param(param) ==
    CASE param = 0 -> "ToEnd"
      [] param = 1 -> "ToBeginning"
      [] param = 2 -> "All"
      [] param = 3 -> "AllWithScrollback"
      [] OTHER -> "ToEnd"

Cmd(tag, a, b) == [tag |-> tag, a |-> a, b |-> b]

\* CsiCommand::parse; tag "Err" is Err(UnknownCommand).  Field a holds the
\* first resolved parameter, b the second (0 when the command has none).
CsiCommand_parse(final_byte, params, is_dec_private) ==
    LET p(i, d) == CsiCommand_param_or(params, i, d)
    IN IF is_dec_private THEN Cmd("Err", 0, 0)
       ELSE CASE final_byte \in {"H", "f"} -> Cmd("CursorPosition", p(0, 1), p(1, 1))
              [] final_byte = "A" -> Cmd("CursorUp", p(0, 1), 0)
              [] final_byte = "B" -> Cmd("CursorDown", p(0, 1), 0)
              [] final_byte = "C" -> Cmd("CursorForward", p(0, 1), 0)
              [] final_byte = "D" -> Cmd("CursorBack", p(0, 1), 0)
              [] final_byte = "J" -> Cmd("EraseInDisplay", EraseMode_from_param(p(0, 0)), 0)
              [] final_byte = "K" -> Cmd("EraseInLine", EraseMode_from_param(p(0, 0)), 0)
              [] final_byte = "m" -> Cmd("SelectGraphicRendition", 0, 0)
              [] final_byte = "L" -> Cmd("InsertLines", p(0, 1), 0)
              [] final_byte = "M" -> Cmd("DeleteLines", p(0, 1), 0)
              [] final_byte = "r" -> Cmd("SetScrollingRegion", p(0, 1), p(1, 0))
              [] final_byte = "n" -> Cmd("DeviceStatusReport", p(0, 0), 0)
              [] final_byte = "q" -> Cmd("SetCursorStyle", p(0, 0), 0)
              [] final_byte = "G" -> Cmd("CursorHorizontalAbsolute", p(0, 1), 0)
              [] final_byte = "c" -> Cmd("DeviceAttributes", p(0, 0), 0)
              [] final_byte = "t" -> Cmd("WindowManipulation", p(0, 0), 0)
              [] final_byte = "d" -> Cmd("VerticalPositionAbsolute", p(0, 1), 0)
              [] final_byte = "X" -> Cmd("EraseCharacter", p(0, 1), 0)
              [] final_byte = "T" -> Cmd("ScrollDown", p(0, 1), 0)
              [] final_byte = "S" -> Cmd("ScrollUp", p(0, 1), 0)
              [] final_byte = "P" -> Cmd("DeleteCharacter", p(0, 1), 0)
              [] final_byte = "l" -> Cmd("ResetMode", p(0, 0), 0)
              [] OTHER -> Cmd("Err", 0, 0)

\* DecPrivateMode::from_mode; the modes the emulator has no flag for are
\* named "Unimplemented"
DecPrivateMode_from_mode(mode) ==
    CASE mode = 1 -> "ApplicationCursorKeys"
      [] mode \in {2, 3, 4, 5, 6, 8, 9, 1001, 1005, 1007} -> "Unimplemented"
      [] mode = 7 -> "AutoWrapMode"
      [] mode = 12 -> "CursorBlink"
      [] mode = 25 -> "ShowCursor"
      [] mode = 47 -> "AlternateScreenBuffer"
      [] mode = 1000 -> "MouseTracking"
      [] mode = 1002 -> "MouseCellMotion"
      [] mode = 1003 -> "MouseAllMotion"
      [] mode = 1004 -> "FocusEvents"
      [] mode = 1006 -> "MouseSGR"
      [] mode = 1015 -> "MouseUrxvt"
      [] mode = 1049 -> "AlternateScreenBuffer"
      [] mode = 2004 -> "BracketedPaste"
      [] mode = 2026 -> "SynchronizedOutput"
      [] OTHER -> "Unknown"

----------------------------------------------------------------------------
(* Perform for Terminal: print and execute (terminal/mod.rs).              *)

\* print storing the colours as they are, reverse or not
print_Unswapped(T, c) ==
    LET s == T.state
        cell == [ch |-> c, fg |-> s.fg, bg |-> s.bg,
                 bold |-> s.bold, italic |-> s.italic,
                 underline |-> s.underline, reverse |-> s.reverse]
        wrapped == IF s.cursor.col >= s.grid.width
                   THEN IF s.auto_wrap
                        THEN [s.cursor EXCEPT
                                !.col = 0,
                                !.row = IF s.cursor.row + 1 >= s.grid.viewport_height
                                        THEN s.grid.viewport_height - 1
                                        ELSE s.cursor.row + 1]
                        ELSE [s.cursor EXCEPT !.col = s.grid.width - 1]
                   ELSE s.cursor
    IN [T EXCEPT !.state.grid = put_cell(s.grid, cell, wrapped.row, wrapped.col),
                 !.state.cursor = [wrapped EXCEPT !.col = wrapped.col + 1]]

print(T, c) ==
    LET s == T.state
        cell == [ch |-> c,
                 fg |-> IF s.reverse THEN s.bg ELSE s.fg,
                 bg |-> IF s.reverse THEN s.fg ELSE s.bg,
                 bold |-> s.bold, italic |-> s.italic,
                 underline |-> s.underline, reverse |-> s.reverse]
        wrapped == IF s.cursor.col >= s.grid.width
                   THEN IF s.auto_wrap
                        THEN [s.cursor EXCEPT
                                !.col = 0,
                                !.row = IF s.cursor.row + 1 >= s.grid.viewport_height
                                        THEN s.grid.viewport_height - 1
                                        ELSE s.cursor.row + 1]
                        ELSE [s.cursor EXCEPT !.col = s.grid.width - 1]
                   ELSE s.cursor
    IN [T EXCEPT !.state.grid = put_cell(s.grid, cell, wrapped.row, wrapped.col),
                 !.state.cursor = [wrapped EXCEPT !.col = wrapped.col + 1]]

execute(T, byte) ==
    LET s == T.state
    IN CASE byte = "LF" ->
              [T EXCEPT !.state.cursor.row =
                  IF s.cursor.row + 1 >= s.grid.viewport_height
                  THEN s.grid.viewport_height - 1
                  ELSE s.cursor.row + 1]
         [] byte = "CR" -> [T EXCEPT !.state.cursor.col = 0]
         [] byte = "BS" ->
              IF s.cursor.col > 0
              THEN [T EXCEPT !.state.cursor.col = s.cursor.col - 1]
              ELSE T
         [] byte = "HT" ->
              [T EXCEPT !.state.cursor.col =
                  Min(((s.cursor.col \div 8) + 1) * 8, s.grid.width - 1)]
         [] OTHER -> T

\* Perform::esc_dispatch: impl Perform for Terminal defines print, execute
\* and csi_dispatch only, so an escape sequence without CSI (ESC c among
\* them) reaches the trait's default method, which does nothing
esc_dispatch(T, intermediates, byte) == T

----------------------------------------------------------------------------
(* SGR (terminal/mod.rs, terminal/color.rs).                               *)

\* the 0..5 steps of the 6x6x6 colour cube
CubeLevel(v) ==
    CASE v = 0 -> 0 [] v = 1 -> 95 [] v = 2 -> 135
      [] v = 3 -> 175 [] v = 4 -> 215 [] v = 5 -> 255 [] OTHER -> 0

\* Color::from_ansi_index
Color_from_ansi_index(index) ==
    CASE index = 0 -> <<0, 0, 0>>
      [] index = 1 -> <<205, 49, 49>>
      [] index = 2 -> <<13, 188, 121>>
      [] index = 3 -> <<229, 229, 16>>
      [] index = 4 -> <<36, 114, 200>>
      [] index = 5 -> <<188, 63, 188>>
      [] index = 6 -> <<17, 168, 205>>
      [] index = 7 -> <<229, 229, 229>>
      [] index = 8 -> <<102, 102, 102>>
      [] index = 9 -> <<241, 76, 76>>
      [] index = 10 -> <<35, 209, 139>>
      [] index = 11 -> <<245, 245, 67>>
      [] index = 12 -> <<59, 142, 234>>
      [] index = 13 -> <<214, 112, 214>>
      [] index = 14 -> <<41, 184, 219>>
      [] index = 15 -> <<229, 229, 229>>
      [] index >= 16 /\ index <= 231 ->
            <<CubeLevel(((index - 16) \div 36) % 6),
              CubeLevel(((index - 16) \div 6) % 6),
              CubeLevel((index - 16) % 6)>>
      [] OTHER -> <<8 + (index - 232) * 10, 8 + (index - 232) * 10,
                    8 + (index - 232) * 10>>

\* Terminal::next_param on the iterator standing before group i (one-based)
next_param(params, i, default) ==
    IF i <= Len(params) THEN params[i][1] ELSE default

\* Terminal::handle_extended_color with the iterator standing before group
\* i: the state after it, and the group the iterator stands before then
handle_extended_color(s, params, i, is_foreground) ==
    LET paint(color) == IF is_foreground THEN [s EXCEPT !.fg = color]
                        ELSE [s EXCEPT !.bg = color]
    IN IF i > Len(params) THEN [s |-> s, next |-> i]
       ELSE CASE params[i][1] = 2 ->
                   [s |-> paint(<<next_param(params, i + 1, 0) % 256,
                                  next_param(params, i + 2, 0) % 256,
                                  next_param(params, i + 3, 0) % 256>>),
                    next |-> i + 4]
              [] params[i][1] = 5 ->
                   [s |-> paint(Color_from_ansi_index(next_param(params, i + 1, 0) % 256)),
                    next |-> i + 2]
              [] OTHER -> [s |-> s, next |-> i + 1]

\* the body of handle_sgr's loop for one SgrParameter::from_code(code)
\* that is not an extended colour
SgrApply(s, code) ==
    CASE code = 0 -> [s EXCEPT !.fg = white, !.bg = black, !.bold = FALSE,
                               !.italic = FALSE, !.underline = FALSE,
                               !.reverse = FALSE]
      [] code = 1 -> [s EXCEPT !.bold = TRUE]
      [] code = 3 -> [s EXCEPT !.italic = TRUE]
      [] code = 4 -> [s EXCEPT !.underline = TRUE]
      [] code = 7 -> [s EXCEPT !.reverse = TRUE]
      [] code = 22 -> [s EXCEPT !.bold = FALSE]
      [] code = 23 -> [s EXCEPT !.italic = FALSE]
      [] code = 24 -> [s EXCEPT !.underline = FALSE]
      [] code = 27 -> [s EXCEPT !.reverse = FALSE]
      [] code >= 30 /\ code <= 37 -> [s EXCEPT !.fg = Color_from_ansi_index(code - 30)]
      [] code = 39 -> [s EXCEPT !.fg = white]
      [] code >= 40 /\ code <= 47 -> [s EXCEPT !.bg = Color_from_ansi_index(code - 40)]
      [] code = 49 -> [s EXCEPT !.bg = black]
      [] code >= 90 /\ code <= 97 -> [s EXCEPT !.fg = Color_from_ansi_index(code - 90 + 8)]
      [] code >= 100 /\ code <= 107 -> [s EXCEPT !.bg = Color_from_ansi_index(code - 100 + 8)]
      [] OTHER -> s

\* handle_sgr's loop with the iterator standing before group i
RECURSIVE SgrLoop(_, _, _)
SgrLoop(s, params, i) ==
    IF i > Len(params) THEN s
    ELSE LET code == params[i][1]
         IN IF code \in {38, 48}
            THEN LET r == handle_extended_color(s, params, i + 1, code = 38)
                 IN SgrLoop(r.s, params, r.next)
            ELSE SgrLoop(SgrApply(s, code), params, i + 1)

\* handle_sgr treating a lone 0 as its empty-list branch does: reverse
\* is left as it was
handle_sgr_ResetKeepsReverse(s, params) ==
    IF Len(params) = 0 \/ params = <<<<0>>>>
    THEN [s EXCEPT !.fg = white, !.bg = black, !.bold = FALSE,
                   !.italic = FALSE, !.underline = FALSE]
    ELSE SgrLoop(s, params, 1)

\* Terminal::handle_sgr on the TerminalState
handle_sgr(s, params) ==
    IF Len(params) = 0
    THEN [s EXCEPT !.fg = white, !.bg = black, !.bold = FALSE,
                   !.italic = FALSE, !.underline = FALSE]
    ELSE SgrLoop(s, params, 1)

----------------------------------------------------------------------------
(* DEC private modes (terminal/mod.rs).                                    *)

\* the flag of a mode that has one
ModeFlag(s, mode) ==
    CASE mode = "AlternateScreenBuffer" -> s.grid.use_alternate_screen
      [] mode = "AutoWrapMode" -> s.auto_wrap
      [] mode = "BracketedPaste" -> s.bracketed_paste
      [] mode = "ApplicationCursorKeys" -> s.application_cursor_keys
      [] mode = "ShowCursor" -> s.show_cursor
      [] mode = "CursorBlink" -> s.cursor_blink
      [] mode = "MouseSGR" -> s.mouse_sgr
      [] mode = "FocusEvents" -> s.focus_events
      [] mode = "MouseTracking" -> s.mouse_tracking
      [] mode = "MouseCellMotion" -> s.mouse_cell_motion
      [] mode = "MouseAllMotion" -> s.mouse_all_motion
      [] mode = "MouseUrxvt" -> s.mouse_urxvt
      [] mode = "SynchronizedOutput" -> s.synchronized_output

\* the assignment both handlers make to the flag of a mode other than the
\* alternate screen
WithModeFlag(s, mode, v) ==
    CASE mode = "AutoWrapMode" -> [s EXCEPT !.auto_wrap = v]
      [] mode = "BracketedPaste" -> [s EXCEPT !.bracketed_paste = v]
      [] mode = "ApplicationCursorKeys" -> [s EXCEPT !.application_cursor_keys = v]
      [] mode = "ShowCursor" -> [s EXCEPT !.show_cursor = v]
      [] mode = "CursorBlink" -> [s EXCEPT !.cursor_blink = v]
      [] mode = "MouseSGR" -> [s EXCEPT !.mouse_sgr = v]
      [] mode = "FocusEvents" -> [s EXCEPT !.focus_events = v]
      [] mode = "MouseTracking" -> [s EXCEPT !.mouse_tracking = v]
      [] mode = "MouseCellMotion" -> [s EXCEPT !.mouse_cell_motion = v]
      [] mode = "MouseAllMotion" -> [s EXCEPT !.mouse_all_motion = v]
      [] mode = "MouseUrxvt" -> [s EXCEPT !.mouse_urxvt = v]
      [] mode = "SynchronizedOutput" -> [s EXCEPT !.synchronized_output = v]
      [] OTHER -> s

\* handle_dec_mode_set whose arms for unknown and unimplemented modes act
\* like the arm of bracketed paste
handle_dec_mode_set_UnknownSetsPaste(T, params) ==
    LET mode == DecPrivateMode_from_mode(Terminal_param_or(params, 0, 0))
    IN IF mode = "AlternateScreenBuffer"
       THEN [T EXCEPT !.state.grid = clear_viewport(use_alternate_screen(T.state.grid)),
                      !.state.cursor.row = 0,
                      !.state.cursor.col = 0]
       ELSE IF mode \in {"Unknown", "Unimplemented"}
       THEN [T EXCEPT !.state.bracketed_paste = TRUE]
       ELSE [T EXCEPT !.state = WithModeFlag(T.state, mode, TRUE)]

handle_dec_mode_set(T, params) ==
    LET mode == DecPrivateMode_from_mode(Terminal_param_or(params, 0, 0))
    IN IF mode = "AlternateScreenBuffer"
       THEN [T EXCEPT !.state.grid = clear_viewport(use_alternate_screen(T.state.grid)),
                      !.state.cursor.row = 0,
                      !.state.cursor.col = 0]
       ELSE [T EXCEPT !.state = WithModeFlag(T.state, mode, TRUE)]

\* handle_dec_mode_reset that restores the main screen but leaves the
\* flag of every other mode as it is
handle_dec_mode_reset_KeepFlag(T, params) ==
    LET mode == DecPrivateMode_from_mode(Terminal_param_or(params, 0, 0))
    IN IF mode = "AlternateScreenBuffer"
       THEN [T EXCEPT !.state.grid = use_main_screen(T.state.grid)]
       ELSE T

handle_dec_mode_reset(T, params) ==
    LET mode == DecPrivateMode_from_mode(Terminal_param_or(params, 0, 0))
    IN IF mode = "AlternateScreenBuffer"
       THEN [T EXCEPT !.state.grid = use_main_screen(T.state.grid)]
       ELSE [T EXCEPT !.state = WithModeFlag(T.state, mode, FALSE)]

\* generate_decrqm_response that has no arm for the alternate screen
generate_decrqm_response_NoScreenArm(T, mode_num) ==
    LET mode == DecPrivateMode_from_mode(mode_num)
        value == IF mode \in {"Unknown", "Unimplemented", "AlternateScreenBuffer"} THEN 0
                 ELSE IF ModeFlag(T.state, mode) THEN 1 ELSE 2
    IN [T EXCEPT !.pending_responses =
            Append(@, [kind |-> "DECRPM", a |-> mode_num, b |-> value])]

\* the reply format!("\x1b[?{};{}$y", mode_num, value)
generate_decrqm_response(T, mode_num) ==
    LET mode == DecPrivateMode_from_mode(mode_num)
        value == IF mode \in {"Unknown", "Unimplemented"} THEN 0
                 ELSE IF ModeFlag(T.state, mode) THEN 1 ELSE 2
    IN [T EXCEPT !.pending_responses =
            Append(@, [kind |-> "DECRPM", a |-> mode_num, b |-> value])]

----------------------------------------------------------------------------
(* Perform for Terminal: csi_dispatch (terminal/mod.rs).                   *)

\* for col in from..to { put_cell(Cell::default(), row, col) }
RECURSIVE PutDefaults(_, _, _, _)
PutDefaults(g, row, from, to) ==
    IF from >= to THEN g
    ELSE PutDefaults(put_cell(g, DefaultCell, row, from), row, from + 1, to)

\* for row in from..to { clear_line(row) }
RECURSIVE ClearLines(_, _, _)
ClearLines(g, from, to) ==
    IF from >= to THEN g
    ELSE ClearLines(clear_line(g, from), from + 1, to)

EraseInDisplay(T, mode) ==
    LET s == T.state
    IN CASE mode = "ToEnd" ->
              LET g1 == PutDefaults(s.grid, s.cursor.row, s.cursor.col, s.grid.width)
                  viewport_end == g1.viewport_start + g1.viewport_height
              IN [T EXCEPT !.state.grid = ClearLines(g1, s.cursor.row + 1, viewport_end)]
         [] mode = "All" ->
              [T EXCEPT !.state.grid = clear_viewport(s.grid),
                        !.state.cursor.row = 0,
                        !.state.cursor.col = 0]
         [] mode = "ToBeginning" ->
              LET g1 == ClearLines(s.grid, 0, s.cursor.row)
              IN [T EXCEPT !.state.grid =
                      PutDefaults(g1, s.cursor.row, 0, s.cursor.col + 1)]
         [] mode = "AllWithScrollback" ->
              [T EXCEPT !.state.grid = clear_viewport(s.grid)]

EraseInLine(T, mode) ==
    LET s == T.state
    IN CASE mode = "ToEnd" ->
              [T EXCEPT !.state.grid =
                  PutDefaults(s.grid, s.cursor.row, s.cursor.col, s.grid.width)]
         [] mode = "All" ->
              [T EXCEPT !.state.grid = clear_line(s.grid, s.cursor.row)]
         [] mode = "ToBeginning" ->
              [T EXCEPT !.state.grid =
                  PutDefaults(s.grid, s.cursor.row, 0, s.cursor.col + 1)]
         [] mode = "AllWithScrollback" -> T

SetScrollingRegion(T, top, bottom) ==
    LET g == T.state.grid
        g1 == IF top = 0 /\ bottom = 0 THEN reset_scroll_region(g)
              ELSE IF top > 0 /\ bottom > 0
                   THEN set_scroll_region(g, saturating_sub(top, 1),
                                          saturating_sub(bottom, 1))
                   ELSE g
    IN [T EXCEPT !.state.grid = g1,
                 !.state.cursor.row = g1.viewport_start,
                 !.state.cursor.col = 0]

\* usize subtraction a - b: a debug build panics when b > a, a release
\* build wraps
wrapping_sub(a, b) == IF a >= b THEN a - b ELSE UsizeModulus - (b - a)

\* cursor.row - viewport_start goes below zero.  The debug build panics
\* before the grid is touched; the release build calls the grid with the
\* wrapped row.  Both are recorded as the fault "underflow"; the model goes
\* on as the release build does.
InsertLines(T, n) ==
    LET s == T.state
        count == Max(n, 1)
        cursor_row == wrapping_sub(s.cursor.row, s.grid.viewport_start)
        noted == IF s.cursor.row < s.grid.viewport_start
                 THEN [T EXCEPT !.fault = "underflow"] ELSE T
    IN IF ~insert_lines_in_range(s.grid, cursor_row, count)
       THEN [T EXCEPT !.fault = "panic"]
       ELSE [noted EXCEPT !.state.grid = insert_lines(s.grid, cursor_row, count)]

DeleteLines(T, n) ==
    LET s == T.state
        count == Max(n, 1)
        cursor_row == wrapping_sub(s.cursor.row, s.grid.viewport_start)
        noted == IF s.cursor.row < s.grid.viewport_start
                 THEN [T EXCEPT !.fault = "underflow"] ELSE T
    IN [noted EXCEPT !.state.grid = delete_lines(s.grid, cursor_row, count)]

DeviceStatusReport_ZeroBased(T, n) ==
    IF n = 6
    THEN [T EXCEPT !.pending_responses =
            Append(@, [kind |-> "CPR", a |-> T.state.cursor.row,
                       b |-> T.state.cursor.col])]
    ELSE T

DeviceStatusReport(T, n) ==
    IF n = 6
    THEN [T EXCEPT !.pending_responses =
            Append(@, [kind |-> "CPR", a |-> T.state.cursor.row + 1,
                       b |-> T.state.cursor.col + 1])]
    ELSE T

DeviceAttributes(T, n) ==
    IF n = 0
    THEN [T EXCEPT !.pending_responses = Append(@, [kind |-> "DA1", a |-> 1, b |-> 2])]
    ELSE T

SetCursorStyle(T, style) ==
    LET new_style == CASE style \in {0, 1, 2} -> "Block"
                       [] style \in {3, 4} -> "Underline"
                       [] style \in {5, 6} -> "Bar"
                       [] OTHER -> "Block"
        T1 == [T EXCEPT !.state.cursor.style = new_style]
    IN IF style > 0
       THEN [T1 EXCEPT !.state.cursor_blink = (style % 2 = 1)]
       ELSE T1

EraseCharacter(T, n) ==
    LET s == T.state
        end_col == Min(s.cursor.col + n, s.grid.width)
    IN [T EXCEPT !.state.grid = PutDefaults(s.grid, s.cursor.row, s.cursor.col, end_col)]

\* Vec::insert(viewport_start, ..) panics when viewport_start > len
ScrollDown(T, n) ==
    LET g == T.state.grid
    IN IF n > 0 /\ g.viewport_start > Len(g.cells)
       THEN [T EXCEPT !.fault = "panic"]
       ELSE [T EXCEPT !.state.grid =
                TrimScrollback([g EXCEPT !.cells =
                    InsertBlank(g.cells, g.viewport_start, g.width, n)])]

\* count times: insert a default row at min(pos, len)
RECURSIVE InsertClamped(_, _, _, _)
InsertClamped(rows, pos, width, count) ==
    IF count = 0 THEN rows
    ELSE InsertClamped(VecInsert(rows, Min(pos, Len(rows)), BlankRow(width)),
                       pos, width, count - 1)

ScrollUp(T, n) ==
    LET g == T.state.grid
        lines_to_remove == Min(n, g.viewport_height)
        drained == SubSeq(g.cells, 1, g.viewport_start)
                   \o SubSeq(g.cells, g.viewport_start + lines_to_remove + 1, Len(g.cells))
    IN IF g.viewport_start + lines_to_remove <= Len(g.cells)
       THEN [T EXCEPT !.state.grid.cells =
                InsertClamped(drained,
                              g.viewport_start + g.viewport_height - lines_to_remove,
                              g.width, lines_to_remove)]
       ELSE T

\* count times: row.remove(start_col) while start_col < row.len()
RECURSIVE RemoveCells(_, _, _)
RemoveCells(row, start_col, count) ==
    IF count = 0 THEN row
    ELSE RemoveCells(IF start_col < Len(row) THEN VecRemove(row, start_col) ELSE row,
                     start_col, count - 1)

DeleteCharacter(T, n) ==
    LET s == T.state
        g == s.grid
        start_col == s.cursor.col
        width == g.width
        absolute_row == g.viewport_start + s.cursor.row
        rows == IF absolute_row >= Len(g.cells)
                THEN g.cells \o [i \in 1..(absolute_row + 1 - Len(g.cells)) |-> BlankRow(width)]
                ELSE g.cells
        n_chars == Min(n, width - start_col)
        shifted == RemoveCells(rows[absolute_row + 1], start_col, n_chars)
        padded == IF Len(shifted) < width
                  THEN shifted \o [i \in 1..(width - Len(shifted)) |-> DefaultCell]
                  ELSE shifted
    IN IF start_col < width
       THEN [T EXCEPT !.state.grid.cells = [rows EXCEPT ![absolute_row + 1] = padded]]
       ELSE T

\* the match on the parsed command
ExecuteCommand(T, command) ==
    LET s == T.state
        a == command.a
        b == command.b
    IN CASE command.tag = "CursorPosition" ->
              [T EXCEPT !.state.cursor.row =
                            Min(saturating_sub(a, 1), s.grid.viewport_height - 1),
                        !.state.cursor.col =
                            Min(saturating_sub(b, 1), s.grid.width - 1)]
         [] command.tag = "CursorUp" ->
              [T EXCEPT !.state.cursor.row = saturating_sub(s.cursor.row, a)]
         [] command.tag = "CursorDown" ->
              [T EXCEPT !.state.cursor.row =
                            Min(s.cursor.row + a, s.grid.viewport_height - 1)]
         [] command.tag = "CursorForward" ->
              [T EXCEPT !.state.cursor.col = Min(s.cursor.col + a, s.grid.width - 1)]
         [] command.tag = "CursorBack" ->
              [T EXCEPT !.state.cursor.col = saturating_sub(s.cursor.col, a)]
         [] command.tag = "CursorHorizontalAbsolute" ->
              [T EXCEPT !.state.cursor.col =
                            Min(saturating_sub(a, 1), s.grid.width - 1)]
         [] command.tag = "EraseInDisplay" -> EraseInDisplay(T, a)
         [] command.tag = "EraseInLine" -> EraseInLine(T, a)
         [] command.tag = "SetScrollingRegion" -> SetScrollingRegion(T, a, b)
         [] command.tag = "InsertLines" -> InsertLines(T, a)
         [] command.tag = "DeleteLines" -> DeleteLines(T, a)
         [] command.tag = "DeviceStatusReport" -> DeviceStatusReport(T, a)
         [] command.tag = "DeviceAttributes" -> DeviceAttributes(T, a)
         [] command.tag = "SetCursorStyle" -> SetCursorStyle(T, a)
         [] command.tag = "VerticalPositionAbsolute" ->
              [T EXCEPT !.state.cursor.row =
                            Min(saturating_sub(a, 1), s.grid.viewport_height - 1)]
         [] command.tag = "EraseCharacter" -> EraseCharacter(T, a)
         [] command.tag = "ScrollDown" -> ScrollDown(T, a)
         [] command.tag = "ScrollUp" -> ScrollUp(T, a)
         [] command.tag = "DeleteCharacter" -> DeleteCharacter(T, a)
         [] OTHER -> T

\* intermediates.first() == Some(&b)
FirstIs(intermediates, b) == Len(intermediates) > 0 /\ intermediates[1] = b

csi_dispatch(T, params, intermediates, action) ==
    LET is_dec_private == FirstIs(intermediates, "?")
        has_gt == FirstIs(intermediates, ">")
        command == CsiCommand_parse(action, params, is_dec_private)
    IN IF has_gt /\ action = "c"
       THEN [T EXCEPT !.pending_responses = Append(@, [kind |-> "DA2", a |-> 1, b |-> 0])]
       ELSE IF is_dec_private
       THEN CASE action = "h" -> handle_dec_mode_set(T, params)
              [] action = "l" -> handle_dec_mode_reset(T, params)
              [] action = "p" ->
                   generate_decrqm_response(T, Terminal_param_or(params, 0, 0))
              [] OTHER -> T
       ELSE IF command.tag = "Err" THEN T
       ELSE IF command.tag = "SelectGraphicRendition"
       THEN [T EXCEPT !.state = handle_sgr(T.state, params)]
       ELSE ExecuteCommand(T, command)

\* Terminal::resize that clamps the cursor row but not the column
Terminal_resize_NoColClamp(T, cols, rows) ==
    LET g == grid_resize(T.state.grid, cols, rows)
    IN [T EXCEPT !.state.grid = g,
                 !.state.cursor.row = Min(T.state.cursor.row, saturating_sub(rows, 1))]

\* Terminal::resize
Terminal_resize(T, cols, rows) ==
    LET g == grid_resize(T.state.grid, cols, rows)
    IN [T EXCEPT !.state.grid = g,
                 !.state.cursor.row = Min(T.state.cursor.row, saturating_sub(rows, 1)),
                 !.state.cursor.col = Min(T.state.cursor.col, saturating_sub(cols, 1))]

----------------------------------------------------------------------------
(* The session.  TerminalSession owns the Terminal and an optional Shell.  *)
(* The Shell owns the master side of the PTY and the receiving end of a    *)
(* channel; a reader thread, which holds a second reference to the master, *)
(* reads chunks from it and sends them into the channel.  The child        *)
(* process writes to the slave side.  A chunk is [id, token]: id numbers   *)
(* the chunks in the order the child wrote them, token is the one          *)
(* sequence the chunk holds.                                               *)

MaxChunks == 3

NoChunk == [id |-> 0, token |-> "none"]

\* the pump before its first call
IdlePump == [pc |-> "idle", has_data |-> FALSE, responses |-> <<>>, result |-> "none"]

\* Shell::new succeeded: child forked, reader thread spawned
Shell_new_Ok ==
    [ master_refs    |-> {"shell", "reader"},
      channel        |-> <<>>,
      sender_alive   |-> TRUE,
      receiver_alive |-> TRUE,
      reader_pc      |-> "read",
      reader_buf     |-> NoChunk,
      child          |-> "running",
      pty_out        |-> <<>>,
      produced       |-> 0 ]

\* Shell::new failed (openpty or fork): no master, no thread, no child
Shell_new_Err ==
    [ master_refs    |-> {},
      channel        |-> <<>>,
      sender_alive   |-> FALSE,
      receiver_alive |-> FALSE,
      reader_pc      |-> "none",
      reader_buf     |-> NoChunk,
      child          |-> "none",
      pty_out        |-> <<>>,
      produced       |-> 0 ]

\* TerminalSession::new, given how Shell::new ended: the error is logged,
\* .ok() turns it into None, and the constructor returns Ok
TerminalSession_new(shell_result) ==
    [ new_result |-> "Ok",
      shell      |-> IF shell_result = "Ok" THEN "some" ELSE "none",
      sh         |-> IF shell_result = "Ok" THEN Shell_new_Ok ELSE Shell_new_Err,
      pump       |-> IdlePump ]

----------------------------------------------------------------------------
(* The emulator as a state machine.  One step is one event the VTE parser  *)
(* hands to the emulator while Terminal::process_bytes runs (a printable   *)
(* character, a C0 control, a complete CSI sequence), the tail of a        *)
(* session pump that ingested data, or a resize.                           *)

\* the emulator before an operation; a panic ends the process, a wrapped
\* subtraction does not
Term == [state |-> state, pending_responses |-> pending_responses, fault |-> "none"]

\* the primary screen as it was when the alternate screen was entered:
\* valid while the alternate screen is active, left right after the step
\* that went back to the primary screen
NoEntry == [valid |-> FALSE, left |-> FALSE, cells |-> <<>>, viewport_start |-> 0]

ParamValues == 0..MaxParam
\* parameter lists as the parser delivers them: one or two groups
Params1 == {<<<<v>>>> : v \in ParamValues}
Params2 == {<<<<v>>, <<w>>>> : v \in ParamValues, w \in ParamValues}
ParamsFor(final) == IF final \in {"H", "f", "r"} THEN Params1 \cup Params2 ELSE Params1

\* what a step leaves of the alternate-screen history
EntryAfter(T) ==
    IF ~state.grid.use_alternate_screen /\ T.state.grid.use_alternate_screen
    THEN [valid |-> TRUE, left |-> FALSE, cells |-> state.grid.cells,
          viewport_start |-> state.grid.viewport_start]
    ELSE IF T.state.grid.use_alternate_screen THEN entry
    ELSE IF state.grid.use_alternate_screen /\ entry.valid
    THEN [entry EXCEPT !.valid = FALSE, !.left = TRUE]
    ELSE NoEntry

\* Delete Character can lengthen a screen past max_scrollback, again and
\* again; the model follows a screen up to one row past the cap
RowCap == MaxScrollback + 1

Becomes(T) ==
    /\ fault # "panic"
    /\ Len(T.state.grid.cells) <= RowCap
    /\ state' = T.state
    /\ pending_responses' = T.pending_responses
    /\ fault' = T.fault
    /\ entry' = EntryAfter(T)
    /\ UNCHANGED <<hist, session>>

\* Terminal::new(cols, rows) for the given sizes
InitWith(colsSet, rowsSet) ==
    /\ \E cols \in colsSet, rows \in rowsSet :
          state = TerminalState_new(cols, rows)
    /\ pending_responses = <<>>
    /\ fault = "none"
    /\ entry = NoEntry
    /\ hist = <<>>
    /\ session = TerminalSession_new("Ok")

\* Perform::print of one of the characters
DoPrint(chars) == \E c \in chars : Becomes(print(Term, c))

\* Perform::execute of one of the controls
DoExecute(controls) == \E byte \in controls : Becomes(execute(Term, byte))

\* Perform::csi_dispatch of an unmarked sequence with one of the final bytes
DoCsi(finals) ==
    \E action \in finals : \E params \in ParamsFor(action) :
        Becomes(csi_dispatch(Term, params, <<>>, action))

\* Perform::csi_dispatch of CSI ? mode h and CSI ? mode l
DoDecPrivate(modes) ==
    \E action \in {"h", "l"}, mode \in modes :
        Becomes(csi_dispatch(Term, <<<<mode>>>>, <<"?">>, action))

\* TerminalSession::process_output after its loop ingested data:
\* viewport_to_end, then the responses are drained
DoPumpEnd ==
    /\ fault # "panic"
    /\ state' = [state EXCEPT !.grid = viewport_to_end(state.grid)]
    /\ pending_responses' = <<>>
    /\ fault' = "none"
    /\ entry' = IF entry.left THEN NoEntry ELSE entry
    /\ UNCHANGED <<hist, session>>

\* TerminalSession::resize; a resize ends the alternate-screen history
DoResize(colsSet, rowsSet) ==
    /\ fault # "panic"
    /\ \E cols \in colsSet, rows \in rowsSet :
          state' = Terminal_resize(Term, cols, rows).state
    /\ entry' = NoEntry
    /\ fault' = "none"
    /\ UNCHANGED <<pending_responses, hist, session>>

----------------------------------------------------------------------------
(* Spec: the structure of the grid.  Every size up to MaxCols x MaxRows,   *)
(* resizes between them, and every sequence that acts on rows, viewport,   *)
(* cursor and margins.  The printed character is the space, so screens     *)
(* differ in shape only.                                                   *)

\* final bytes of the unmarked CSI sequences that act on grid and cursor
GridFinals == {"H", "A", "B", "C", "D", "G", "d", "J", "K", "X", "P",
               "L", "M", "S", "T", "r"}
\* DEC private modes that act on grid and cursor; 9999 is an unknown mode
GridModes == {7, 47, 1049, 9999}
\* C0 controls; BEL stands for the ignored ones
Controls == {"LF", "CR", "BS", "HT", "BEL"}

Init == InitWith(1..MaxCols, 2..MaxRows)

PrintChar == DoPrint({" "})
ExecuteByte == DoExecute(Controls)
CsiDispatch == DoCsi(GridFinals)
DecPrivate == DoDecPrivate(GridModes)
PumpEnd == DoPumpEnd
Resize == DoResize(1..MaxCols, 2..MaxRows)

Next == PrintChar \/ ExecuteByte \/ CsiDispatch \/ DecPrivate \/ PumpEnd \/ Resize

Spec == Init /\ [][Next]_vars

----------------------------------------------------------------------------
(* ScreenSpec: the contents of the two screens.  A 2-row terminal of       *)
(* width 1 that is never resized; the letter a is printed, and every       *)
(* sequence that writes, erases, inserts, deletes or scrolls is ingested   *)
(* on either screen, between entering and leaving the alternate screen.    *)

ScreenFinals == {"H", "J", "K", "X", "P", "L", "M", "S", "T", "r"}
\* the modes that switch screens
ScreenModes == {47, 1049}

\* a screen is followed up to one row more than the viewport holds
ScreenRowCap == 3
ScreenFits == Len(state'.grid.cells) <= ScreenRowCap

ScreenInit == InitWith({1}, {2})

ScreenPrint == DoPrint({"a"}) /\ ScreenFits
ScreenExecute == DoExecute({"LF", "CR"})
ScreenCsi == DoCsi(ScreenFinals) /\ ScreenFits
ScreenSwitch == DoDecPrivate(ScreenModes)
ScreenPump == DoPumpEnd

ScreenNext == ScreenPrint \/ ScreenExecute \/ ScreenCsi \/ ScreenSwitch \/ ScreenPump

ScreenSpec == ScreenInit /\ [][ScreenNext]_vars

----------------------------------------------------------------------------
(* ModeSpec: DEC private modes on a fresh emulator.  Up to MaxHist         *)
(* sequences CSI ? m h and CSI ? m l are ingested, m a mode of the         *)
(* registry, and hist records them in order.                               *)

RegistryModes == {1, 7, 12, 25, 1000, 1002, 1003, 1004, 1006, 2004, 2026}

ModeOp(action, mode) == [action |-> action, mode |-> mode]

DoMode(action) ==
    \E mode \in RegistryModes :
        LET T == csi_dispatch(Term, <<<<mode>>>>, <<"?">>, action)
        IN /\ Len(hist) < MaxHist
           /\ state' = T.state
           /\ pending_responses' = T.pending_responses
           /\ fault' = T.fault
           /\ entry' = EntryAfter(T)
           /\ hist' = Append(hist, ModeOp(action, mode))
           /\ UNCHANGED session

ModeInit == InitWith(1..MaxCols, 2..MaxRows)

ModeSet == DoMode("h")
ModeReset == DoMode("l")

ModeNext == ModeSet \/ ModeReset

ModeSpec == ModeInit /\ [][ModeNext]_vars

\* the flag of mode number m in state s
FlagOf(s, m) == ModeFlag(s, DecPrivateMode_from_mode(m))

\* the emulator Terminal::new gives for the size of the current one
Fresh == TerminalState_new(state.grid.width, state.grid.viewport_height)

----------------------------------------------------------------------------
(* CsiSpec: parameters of CSI sequences.  A sequence is written with up    *)
(* to MaxFields parameter fields, each empty (<<>>) or a number (<<v>>);   *)
(* the parser turns the fields into the Params that csi_dispatch receives. *)
(* A 2-row terminal of width MaxCols whose screen keeps its 2 rows.        *)

\* vte's parser on the fields of one sequence: an empty field is the
\* value 0, and a sequence with no field at all still delivers one
\* parameter, 0 (process_bytes feeds every byte to parser.advance)
vte_params(fields) ==
    IF fields = <<>> THEN <<<<0>>>>
    ELSE [i \in 1..Len(fields) |-> IF fields[i] = <<>> THEN <<0>> ELSE fields[i]]

Field == {<<>>} \cup {<<v>> : v \in ParamValues}
RECURSIVE FieldListsOfLen(_)
FieldListsOfLen(n) ==
    IF n = 0 THEN {<<>>}
    ELSE {Append(fields, f) : fields \in FieldListsOfLen(n - 1), f \in Field}
FieldLists == UNION {FieldListsOfLen(n) : n \in 0..MaxFields}

HasZero(fields) == \E i \in 1..Len(fields) : fields[i] = <<0>>

\* every sequence csi_dispatch recognises: <<final byte, intermediates>>
RecognisedFinals == {"H", "f", "A", "B", "C", "D", "J", "K", "m", "L", "M", "r",
                     "n", "q", "G", "c", "t", "d", "X", "T", "S", "P", "l"}
RecognisedCsi ==
    {<<final, <<>>>> : final \in RecognisedFinals}
        \cup {<<final, <<"?">>>> : final \in {"h", "l", "p", "u"}}
        \cup {<<"c", <<">">>>>}

\* the emulator after the sequence CSI intermediates fields final
Outcome(kind, fields) == csi_dispatch(Term, vte_params(fields), kind[2], kind[1])

\* the fields with parameter i omitted: its field left empty, or, for the
\* last parameter, not written at all
Omitted(fields, i) ==
    {[fields EXCEPT ![i] = <<>>]}
        \cup (IF i = Len(fields) THEN {SubSeq(fields, 1, i - 1)} ELSE {})

\* the default CsiCommand::parse gives parameter i of a sequence
DefaultOf(kind, i) ==
    IF /\ kind[2] = <<>>
       /\ \/ i = 1 /\ kind[1] \in {"H", "f", "A", "B", "C", "D", "L", "M", "r",
                                    "G", "d", "X", "T", "S", "P"}
          \/ i = 2 /\ kind[1] \in {"H", "f"}
    THEN 1 ELSE 0

\* ingest one sequence; hist keeps the kind of the last sequence when it
\* carried an explicit 0
DoSequence(kinds, fieldLists) ==
    \E kind \in kinds, fields \in fieldLists :
        LET T == Outcome(kind, fields)
        IN /\ fault # "panic"
           /\ Len(T.state.grid.cells) <= state.grid.viewport_height
           /\ Len(T.pending_responses) <= 1
           /\ state' = T.state
           /\ pending_responses' = T.pending_responses
           /\ fault' = T.fault
           /\ entry' = EntryAfter(T)
           /\ hist' = IF HasZero(fields) THEN <<kind>> ELSE <<>>
           /\ UNCHANGED session

\* the sequences CsiSpec ingests: those that change cursor, screen or
\* margins
SteppedCsi == {<<final, <<>>>> : final \in
                  {"H", "A", "B", "C", "D", "J", "K", "X", "P", "L", "M", "S", "r"}}

CsiInit == InitWith({MaxCols}, {2})

CsiPrint == DoPrint({"a"}) /\ Len(state'.grid.cells) <= state.grid.viewport_height
CsiLineFeed == DoExecute({"LF"})
CsiSequence == DoSequence(SteppedCsi, FieldLists)
CsiPump == DoPumpEnd

CsiNext == CsiPrint \/ CsiLineFeed \/ CsiSequence \/ CsiPump

CsiSpec == CsiInit /\ [][CsiNext]_vars

----------------------------------------------------------------------------
(* QuerySpec: DECRQM on an emulator whose modes were set and reset.  Up to *)
(* MaxHist sequences CSI ? m h, CSI ? m l and CSI ? m $ p are ingested;    *)
(* hist records them in order.                                             *)

\* mode numbers with a flag, 2 (a mode the emulator names but does not
\* implement) and 9999 (a number the registry does not know)
FlagModes == RegistryModes \cup {47, 1049, 1015}
QueryModes == FlagModes \cup {2, 9999}

DoQueryOp(action, intermediates) ==
    \E mode \in QueryModes :
        LET T == csi_dispatch(Term, <<<<mode>>>>, intermediates, action)
        IN /\ Len(hist) < MaxHist
           /\ state' = T.state
           /\ pending_responses' = T.pending_responses
           /\ fault' = T.fault
           /\ entry' = EntryAfter(T)
           /\ hist' = Append(hist, ModeOp(action, mode))
           /\ UNCHANGED session

QueryInit == InitWith({MaxCols}, {MaxRows})

QuerySet == DoQueryOp("h", <<"?">>)
QueryReset == DoQueryOp("l", <<"?">>)
QueryMode == DoQueryOp("p", <<"?", "$">>)

QueryNext == QuerySet \/ QueryReset \/ QueryMode

QuerySpec == QueryInit /\ [][QueryNext]_vars

\* 47 and 1049 name the same mode
SameMode(m1, m2) == m1 = m2 \/ {m1, m2} = {47, 1049}

\* whether mode m is set after the operations ops on a fresh emulator:
\* what the last set or reset of m did, or the fresh flag
RECURSIVE SetAfter(_, _)
SetAfter(ops, m) ==
    IF ops = <<>> THEN FlagOf(Fresh, m)
    ELSE LET last == ops[Len(ops)]
         IN IF last.action \in {"h", "l"} /\ SameMode(last.mode, m)
            THEN last.action = "h"
            ELSE SetAfter(SubSeq(ops, 1, Len(ops) - 1), m)

\* the reply ESC[?m;v$y
Decrpm(m, v) == [kind |-> "DECRPM", a |-> m, b |-> v]

----------------------------------------------------------------------------
(* ResizeSpec: a resize to the size the terminal already has.  A 3-row     *)
(* terminal of width 1 on which text is printed, the screen is scrolled,   *)
(* margins are set and screens are switched; one                           *)
(* resize to the same size happens, and hist keeps the margins it found.   *)

ResizeFinals == {"r", "T"}
\* a screen is followed up to one row more than the viewport holds
ResizeRowCap == 4
ResizeFits == Len(state'.grid.cells) <= ResizeRowCap

DoSameResize ==
    /\ hist = <<>>
    /\ fault # "panic"
    /\ state' = Terminal_resize(Term, state.grid.width, state.grid.viewport_height).state
    /\ hist' = <<[scroll_top |-> state.grid.scroll_top,
                  scroll_bottom |-> state.grid.scroll_bottom]>>
    /\ entry' = NoEntry
    /\ fault' = "none"
    /\ UNCHANGED <<pending_responses, session>>

ResizeInit == InitWith({1}, {3})

ResizePrint == DoPrint({"a"}) /\ ResizeFits
ResizeLineFeed == DoExecute({"LF"})
ResizeCsi == DoCsi(ResizeFinals) /\ ResizeFits
ResizeSwitch == DoDecPrivate({1049})
ResizePump == DoPumpEnd
ResizeSame == DoSameResize

ResizeNext ==
    ResizePrint \/ ResizeLineFeed \/ ResizeCsi \/ ResizeSwitch \/ ResizePump \/ ResizeSame

ResizeSpec == ResizeInit /\ [][ResizeNext]_vars

----------------------------------------------------------------------------
(* SessionSpec: the session pump, the reader thread and the child.  The    *)
(* child writes up to MaxChunks chunks and may exit; the reader thread     *)
(* moves them into the channel; process_output runs in steps (one          *)
(* try_recv, the tail, one write at a time) so that the reader and the     *)
(* child interleave with it.  A 2-row terminal of width 1.  hist is the    *)
(* log: the chunks the reader read, the chunks the pump ingested, the      *)
(* responses the emulator generated with the cursor position at their      *)
(* dispatch, the writes process_output attempted with their outcome, and   *)
(* how many writes were attempted and how many chunks were ingested before *)
(* the current call of process_output (the last call, when none runs),     *)
(* and whether no, one, or more than one call has returned Exited (exits:  *)
(* 0, 1, 2).                                                               *)

\* the sequences the child writes: CSI 6 n, CSI > c, CSI 1 T, a line feed,
\* a letter
Tokens == {"6n", ">c", "T", "LF", "a"}

NoLog ==
    [ read_log     |-> <<>>,
      ingested     |-> <<>>,
      generated    |-> <<>>,
      generated_at |-> <<>>,
      attempts     |-> <<>>,
      call_from    |-> 0,
      call_took    |-> 0,
      exits        |-> 0 ]

\* Terminal::process_bytes of a chunk: the parser dispatches its sequence
process_bytes(T, data) ==
    CASE data.token = "6n" -> csi_dispatch(T, <<<<6>>>>, <<>>, "n")
      [] data.token = ">c" -> csi_dispatch(T, <<<<0>>>>, <<">">>, "c")
      [] data.token = "T"  -> csi_dispatch(T, <<<<1>>>>, <<>>, "T")
      [] data.token = "LF" -> execute(T, "LF")
      [] OTHER             -> print(T, data.token)

\* the reader thread ends: the sender and its reference to the master drop
ReaderEnds(sh) ==
    [sh EXCEPT !.reader_pc = "done", !.reader_buf = NoChunk,
               !.sender_alive = FALSE, !.master_refs = @ \ {"reader"}]

try_recv_DisconnectedFirst(sh) ==
    IF ~sh.sender_alive THEN [tag |-> "Disconnected", data |-> NoChunk]
    ELSE IF sh.channel # <<>> THEN [tag |-> "Ok", data |-> Head(sh.channel)]
    ELSE [tag |-> "Empty", data |-> NoChunk]

\* try_recv reporting Disconnected as soon as the child has exited and the
\* channel is empty, while the reader may still hold or fetch a chunk
try_recv_ChildExited(sh) ==
    IF sh.channel # <<>> THEN [tag |-> "Ok", data |-> Head(sh.channel)]
    ELSE IF sh.child = "running" THEN [tag |-> "Empty", data |-> NoChunk]
    ELSE [tag |-> "Disconnected", data |-> NoChunk]

\* Receiver::try_recv as process_output matches it
try_recv(sh) ==
    IF sh.channel # <<>> THEN [tag |-> "Ok", data |-> Head(sh.channel)]
    ELSE IF sh.sender_alive THEN [tag |-> "Empty", data |-> NoChunk]
    ELSE [tag |-> "Disconnected", data |-> NoChunk]

\* where process_output goes after the Ok, Empty and Disconnected arms of
\* try_recv, and after the last response was handed to Shell::write
PhaseAfterChunk == "recv"
PhaseAfterEmpty == "tail"
PhaseAfterDisconnected == "return_false"

PhaseAfterWrites_Loop == "recv"

PhaseAfterWrites == "return_true"

\* the pump when control reaches the given place of process_output
PumpAt(pump, phase) ==
    CASE phase = "return_true"  -> [pump EXCEPT !.pc = "idle", !.result = "Running"]
      [] phase = "return_false" -> [pump EXCEPT !.pc = "idle", !.result = "Exited"]
      [] OTHER                  -> [pump EXCEPT !.pc = phase]

after_write_Retry(pump, ok) ==
    IF ok THEN [pump EXCEPT !.responses = Tail(@)] ELSE pump

\* one iteration of the for loop over the drained responses: the response
\* is handed to Shell::write; an error is logged and the loop goes on
after_write(pump, ok) == [pump EXCEPT !.responses = Tail(@)]

Cursor_position(s) == [row |-> s.cursor.row, col |-> s.cursor.col]

Repeat(x, n) == [i \in 1..n |-> x]

SessionInit ==
    /\ state = TerminalState_new(1, 2)
    /\ pending_responses = <<>>
    /\ fault = "none"
    /\ entry = NoEntry
    /\ hist = NoLog
    /\ \E shell_result \in {"Ok", "Err"} : session = TerminalSession_new(shell_result)

\* the child writes a chunk to the slave side
ChildWrite ==
    /\ session.sh.child = "running"
    /\ session.sh.produced < MaxChunks
    /\ \E token \in Tokens :
          session' = [session EXCEPT
              !.sh.produced = @ + 1,
              !.sh.pty_out = Append(@, [id |-> session.sh.produced + 1, token |-> token])]
    /\ UNCHANGED <<state, pending_responses, fault, entry, hist>>

\* the child exits, which closes the slave side
ChildExit ==
    /\ session.sh.child = "running"
    /\ session' = [session EXCEPT !.sh.child = "exited"]
    /\ UNCHANGED <<state, pending_responses, fault, entry, hist>>

\* PtyReader::next: read returns a chunk, or fails once the slave side is
\* closed and drained, which ends the thread; otherwise read blocks
ReaderRead ==
    /\ session.sh.reader_pc = "read"
    /\ IF session.sh.pty_out # <<>>
       THEN /\ session' = [session EXCEPT
                   !.sh.reader_pc = "send",
                   !.sh.reader_buf = Head(session.sh.pty_out),
                   !.sh.pty_out = Tail(@)]
            /\ hist' = [hist EXCEPT !.read_log = Append(@, Head(session.sh.pty_out).id)]
       ELSE /\ session.sh.child = "exited"
            /\ session' = [session EXCEPT !.sh = ReaderEnds(@)]
            /\ UNCHANGED hist
    /\ UNCHANGED <<state, pending_responses, fault, entry>>

\* the reader thread's tx.send: the chunk is queued, or the receiver is
\* gone and the thread ends
ReaderSend ==
    /\ session.sh.reader_pc = "send"
    /\ session' = IF session.sh.receiver_alive
                  THEN [session EXCEPT !.sh.channel = Append(@, session.sh.reader_buf),
                                       !.sh.reader_pc = "read",
                                       !.sh.reader_buf = NoChunk]
                  ELSE [session EXCEPT !.sh = ReaderEnds(@)]
    /\ UNCHANGED <<state, pending_responses, fault, entry, hist>>

\* process_output is called: without a shell it returns true at once
PumpStart ==
    /\ session.shell # "dropped"
    /\ session.pump.pc = "idle"
    /\ session' = [session EXCEPT !.pump =
          IF session.shell = "some"
          THEN [pc |-> "recv", has_data |-> FALSE, responses |-> <<>>, result |-> "none"]
          ELSE [pc |-> "idle", has_data |-> FALSE, responses |-> <<>>, result |-> "Running"]]
    /\ hist' = [hist EXCEPT !.call_from = Len(hist.attempts),
                            !.call_took = Len(hist.ingested)]
    /\ UNCHANGED <<state, pending_responses, fault, entry>>

\* one turn of the loop of process_output
PumpRecv ==
    /\ session.pump.pc = "recv"
    /\ LET r == try_recv(session.sh)
           T == process_bytes(Term, r.data)
           fresh == SubSeq(T.pending_responses, Len(pending_responses) + 1,
                           Len(T.pending_responses))
       IN CASE r.tag = "Ok" ->
                 /\ state' = T.state
                 /\ pending_responses' = T.pending_responses
                 /\ fault' = T.fault
                 /\ entry' = EntryAfter(T)
                 /\ session' = [session EXCEPT
                        !.sh.channel = Tail(@),
                        !.pump = PumpAt([@ EXCEPT !.has_data = TRUE], PhaseAfterChunk)]
                 /\ hist' = [hist EXCEPT
                        !.ingested = Append(@, r.data.id),
                        !.generated = @ \o fresh,
                        !.generated_at = @ \o Repeat(Cursor_position(state), Len(fresh))]
            [] r.tag = "Empty" ->
                 /\ session' = [session EXCEPT !.pump = PumpAt(@, PhaseAfterEmpty)]
                 /\ UNCHANGED <<state, pending_responses, fault, entry, hist>>
            [] OTHER ->
                 /\ session' = [session EXCEPT !.pump = PumpAt(@, PhaseAfterDisconnected)]
                 /\ hist' = [hist EXCEPT !.exits = Min(@ + 1, 2)]
                 /\ UNCHANGED <<state, pending_responses, fault, entry>>

\* after the loop: viewport_to_end if data arrived, then drain_responses
PumpTail ==
    /\ session.pump.pc = "tail"
    /\ state' = IF session.pump.has_data
                THEN [state EXCEPT !.grid = viewport_to_end(state.grid)]
                ELSE state
    /\ pending_responses' = <<>>
    /\ session' = [session EXCEPT !.pump.responses = pending_responses,
                                  !.pump.pc = "write"]
    /\ UNCHANGED <<fault, entry, hist>>

\* Shell::write of the next drained response, which succeeds or fails
PumpWrite ==
    /\ session.pump.pc = "write"
    /\ session.pump.responses # <<>>
    /\ \E ok \in BOOLEAN :
          /\ session' = [session EXCEPT !.pump = after_write(@, ok)]
          /\ hist' = [hist EXCEPT !.attempts =
                 Append(@, [response |-> Head(session.pump.responses), ok |-> ok])]
    /\ UNCHANGED <<state, pending_responses, fault, entry>>

\* no response is left: process_output returns true
PumpReturn ==
    /\ session.pump.pc = "write"
    /\ session.pump.responses = <<>>
    /\ session' = [session EXCEPT !.pump = PumpAt(@, PhaseAfterWrites)]
    /\ UNCHANGED <<state, pending_responses, fault, entry, hist>>

\* the TerminalSession is dropped between two calls: the Shell's reference
\* to the master and the receiver drop; the reader thread is not joined
SessionDrop ==
    /\ session.shell # "dropped"
    /\ session.pump.pc = "idle"
    /\ session' = [session EXCEPT
          !.shell = "dropped",
          !.sh.master_refs = @ \ {"shell"},
          !.sh.receiver_alive = FALSE,
          !.sh.channel = <<>>]
    /\ UNCHANGED <<state, pending_responses, fault, entry, hist>>

SessionNext ==
    \/ ChildWrite
    \/ ChildExit
    \/ ReaderRead
    \/ ReaderSend
    \/ PumpStart
    \/ PumpRecv
    \/ PumpTail
    \/ PumpWrite
    \/ PumpReturn
    \/ SessionDrop

SessionSpec == SessionInit /\ [][SessionNext]_vars

\* SessionFairSpec: the reader thread is scheduled: a read that can return
\* returns, and a send completes.  Nothing is assumed of the child (it may
\* stay silent and alive for ever) nor of the caller of process_output.
SessionFairSpec ==
    SessionSpec /\ WF_vars(ReaderRead) /\ WF_vars(ReaderSend)

----------------------------------------------------------------------------
(* One operation on a screen that earlier input built.  In LineSpec and    *)
(* CellSpec hist is empty while the screen is built; then one operation    *)
(* is ingested, hist records it as [kind, fields], and the behaviour ends. *)
(* kind is "LF", "print" or the final byte of a CSI sequence; fields are   *)
(* the parameter fields of the sequence as written (for "print": unused).  *)

Edit(kind, fields) == [kind |-> kind, fields |-> fields]

\* what Terminal::process_bytes dispatches for the operation
ApplyEdit(T, op) ==
    CASE op.kind = "LF"    -> execute(T, "LF")
      [] op.kind = "print" -> print(T, "b")
      [] op.kind = "ESC c" -> esc_dispatch(T, <<>>, "c")
      [] OTHER             -> csi_dispatch(T, vte_params(op.fields), <<>>, op.kind)

DoEdit(ops) ==
    /\ hist = <<>>
    /\ fault # "panic"
    /\ \E op \in ops :
          LET T == ApplyEdit(Term, op)
          IN /\ state' = T.state
             /\ pending_responses' = T.pending_responses
             /\ fault' = T.fault
             /\ entry' = EntryAfter(T)
             /\ hist' = <<op>>
    /\ UNCHANGED session

\* the step that ingests the operation
Edited == hist = <<>> /\ hist' # <<>>

\* ingest one operation at any time; hist holds the operation ingested last
DoLast(ops) ==
    /\ fault # "panic"
    /\ \E op \in ops :
          LET T == ApplyEdit(Term, op)
          IN /\ state' = T.state
             /\ pending_responses' = T.pending_responses
             /\ fault' = T.fault
             /\ entry' = EntryAfter(T)
             /\ hist' = <<op>>
    /\ UNCHANGED session

----------------------------------------------------------------------------
(* LineSpec: operations on whole lines.  A 3-row terminal of width 1; the  *)
(* letter a is printed, the cursor moves down, margins are set, the screen *)
(* is scrolled down (which adds a row) and pumps move the viewport to the  *)
(* end; then a line feed, CSI L, CSI M, CSI r or CSI 3 J is ingested.      *)

LineRowCap == 4
LineFits == Len(state'.grid.cells) <= LineRowCap

\* CSI 1;2 r, CSI 2;3 r, CSI 1;3 r
LineRegions == {<<<<1>>, <<2>>>>, <<<<2>>, <<3>>>>, <<<<1>>, <<3>>>>}

LineEdits ==
    {Edit("LF", <<>>), Edit("J", <<<<3>>>>)}
    \cup {Edit(k, <<<<n>>>>) : k \in {"L", "M"}, n \in 1..3}
    \cup {Edit("r", f) : f \in {<<>>, <<<<0>>>>, <<<<>>, <<>>>>, <<<<0>>, <<0>>>>,
                                 <<<<2>>>>, <<<<2>>, <<>>>>}}

LineInit == InitWith({1}, {3})

LinePrint == hist = <<>> /\ DoPrint({"a"}) /\ LineFits

LineLineFeed == hist = <<>> /\ DoExecute({"LF"})

LineRegion ==
    /\ hist = <<>>
    /\ \E params \in LineRegions : Becomes(csi_dispatch(Term, params, <<>>, "r"))

LineScroll == hist = <<>> /\ DoCsi({"T"}) /\ LineFits

LinePump == hist = <<>> /\ DoPumpEnd

LineEdit == DoEdit(LineEdits)

LineNext ==
    \/ LinePrint
    \/ LineLineFeed
    \/ LineRegion
    \/ LineScroll
    \/ LinePump
    \/ LineEdit

LineSpec == LineInit /\ [][LineNext]_vars

----------------------------------------------------------------------------
(* CellSpec: operations on the cells of a line.  A 2-row terminal of width *)
(* 2; the letter a is printed, the cursor moves (LF, CR), AutoWrap is      *)
(* switched, the screen is scrolled down and pumps move the viewport to    *)
(* the end; then the letter b is printed, or CSI P or CSI 1 J is ingested. *)

CellRowCap == 3
CellFits == Len(state'.grid.cells) <= CellRowCap

CellEdits ==
    {Edit("print", <<>>), Edit("J", <<<<1>>>>)}
    \cup {Edit("P", <<<<n>>>>) : n \in 1..2}

CellInit == InitWith({2}, {2})

CellPrint == hist = <<>> /\ DoPrint({"a"}) /\ CellFits

CellExecute == hist = <<>> /\ DoExecute({"LF", "CR"})

CellAutoWrap == hist = <<>> /\ DoDecPrivate({7})

CellScroll == hist = <<>> /\ DoCsi({"T"}) /\ CellFits

CellPump == hist = <<>> /\ DoPumpEnd

CellEdit == DoEdit(CellEdits)

CellNext ==
    \/ CellPrint
    \/ CellExecute
    \/ CellAutoWrap
    \/ CellScroll
    \/ CellPump
    \/ CellEdit

CellSpec == CellInit /\ [][CellNext]_vars

----------------------------------------------------------------------------
(* SgrSpec: extended colours in SGR sequences.  A sequence selects the     *)
(* foreground (38) or background (48), gives the colour as 5;i or 2;r;g;b, *)
(* and may end with one ordinary SGR code; it is written with ';' or with  *)
(* ':' between the sub-parameters of the colour.  The parser delivers a    *)
(* ':'-separated run as one parameter group and each ';'-separated field   *)
(* as a group of its own.  hist holds the sequence ingested last.          *)

SgrTargets == {38, 48}
SgrColours == {<<5, 1>>, <<5, 2>>, <<2, 1, 2, 3>>}
SgrTrailing == {<<>>, <<0>>, <<1>>, <<4>>}

\* CSI 38;5;i m and CSI 38;2;r;g;b m, with the trailing code if any
SemicolonFields(target, colour, trailing) ==
    <<<<target>>>> \o [i \in 1..Len(colour) |-> <<colour[i]>>]
                   \o (IF trailing = <<>> THEN <<>> ELSE <<trailing>>)

\* CSI 38:5:i m and CSI 38:2:r:g:b m, with the trailing code if any
ColonFields(target, colour, trailing) ==
    <<(<<target>> \o colour)>> \o (IF trailing = <<>> THEN <<>> ELSE <<trailing>>)

SgrFields(op) ==
    IF op.form = "colon" THEN ColonFields(op.target, op.colour, op.trailing)
    ELSE SemicolonFields(op.target, op.colour, op.trailing)

DoSgr(form) ==
    \E target \in SgrTargets, colour \in SgrColours, trailing \in SgrTrailing :
        LET op == [form |-> form, target |-> target, colour |-> colour,
                   trailing |-> trailing]
            T == csi_dispatch(Term, vte_params(SgrFields(op)), <<>>, "m")
        IN /\ state' = T.state
           /\ pending_responses' = T.pending_responses
           /\ fault' = T.fault
           /\ entry' = EntryAfter(T)
           /\ hist' = <<op>>
           /\ UNCHANGED session

SgrInit == InitWith({1}, {2})

SgrSemicolon == DoSgr("semicolon")

SgrColon == DoSgr("colon")

SgrNext ==
    \/ SgrSemicolon
    \/ SgrColon

SgrSpec == SgrInit /\ [][SgrNext]_vars

----------------------------------------------------------------------------
(* AttrSpec: character attributes.  A terminal of one cell on which the    *)
(* letter b is printed between SGR sequences that set and clear bold,      *)
(* italic, underline, reverse and the two colours, SGR resets (CSI m and   *)
(* CSI 0 m) and the full reset ESC c.  hist holds the operation ingested   *)
(* last.                                                                   *)

AttrCodes == {1, 3, 4, 7, 27, 31, 42}
\* CSI m and CSI 0 m
ResetFields == {<<>>, <<<<0>>>>}

AttrInit == InitWith({1}, {1})

AttrSet == DoLast({Edit("m", <<<<code>>>>) : code \in AttrCodes})
AttrReset == DoLast({Edit("m", fields) : fields \in ResetFields})
AttrPrint == DoLast({Edit("print", <<>>)})
AttrFullReset == DoLast({Edit("ESC c", <<>>)})

AttrNext ==
    \/ AttrSet
    \/ AttrReset
    \/ AttrPrint
    \/ AttrFullReset

AttrSpec == AttrInit /\ [][AttrNext]_vars

----------------------------------------------------------------------------
(* SeqSpec: CSI sequences the emulator knows, does not know, and sequences *)
(* with a private marker.  A 2-row terminal of width 1 on which the letter *)
(* b is printed; a sequence is [marker, kind, fields]: marker holds the    *)
(* intermediates the parser collected (a private marker '<', '=', '>' or   *)
(* '?' is collected as one), kind the final byte, fields the parameter     *)
(* fields as written.  hist holds the operation ingested last.             *)

Sequence(marker, final, fields) == [marker |-> marker, kind |-> final, fields |-> fields]

\* what Terminal::process_bytes dispatches for the operation
ApplySeq(T, op) ==
    IF op.kind = "print" THEN print(T, "b")
    ELSE csi_dispatch(T, vte_params(op.fields), op.marker, op.kind)

\* ingest one operation; the response queue is followed up to one response
DoSeq(ops) ==
    /\ fault # "panic"
    /\ \E op \in ops :
          LET T == ApplySeq(Term, op)
          IN /\ Len(T.pending_responses) <= 1
             /\ state' = T.state
             /\ pending_responses' = T.pending_responses
             /\ fault' = T.fault
             /\ entry' = EntryAfter(T)
             /\ hist' = <<op>>
    /\ UNCHANGED session

\* CSI 1 m, CSI 2 H, CSI ? 25 l, CSI 6 n
KnownSeqs ==
    {Sequence(<<>>, "m", <<<<1>>>>), Sequence(<<>>, "H", <<<<2>>>>),
     Sequence(<<"?">>, "l", <<<<25>>>>), Sequence(<<>>, "n", <<<<6>>>>)}

\* final bytes CsiCommand::parse has no arm for
UnknownFinals == {"z", "h", "@"}
\* mode numbers without a flag: 9999 is not in the registry, 2 and 1005
\* are named there and not implemented
UnknownModes == {9999, 2, 1005}
UnknownSeqs ==
    {Sequence(<<>>, final, fields) : final \in UnknownFinals, fields \in {<<>>, <<<<1>>>>}}
        \cup {Sequence(<<"?">>, action, <<<<mode>>>>) :
                 action \in {"h", "l"}, mode \in UnknownModes}

\* CSI > 4 ; 2 m, CSI = c, CSI < 1 M and CSI > c
PrivateMarkers == {"<", "=", ">"}
MarkedSeqs ==
    {Sequence(<<marker>>, "m", <<<<4>>, <<2>>>>) : marker \in PrivateMarkers}
        \cup {Sequence(<<marker>>, "c", <<>>) : marker \in PrivateMarkers}
        \cup {Sequence(<<marker>>, "M", <<<<1>>>>) : marker \in PrivateMarkers}

SeqInit == InitWith({1}, {2})

SeqPrint == DoSeq({Sequence(<<>>, "print", <<>>)})
SeqKnown == DoSeq(KnownSeqs)
SeqUnknown == DoSeq(UnknownSeqs)
SeqMarked == DoSeq(MarkedSeqs)

SeqNext ==
    \/ SeqPrint
    \/ SeqKnown
    \/ SeqUnknown
    \/ SeqMarked

SeqSpec == SeqInit /\ [][SeqNext]_vars

----------------------------------------------------------------------------
(* PutSpec: TerminalGrid::put_cell called directly.  Grids of every size   *)
(* up to MaxCols x MaxRows with max_scrollback MaxScrollback; the cell     *)
(* with the letter a is put at rows up to one past max_scrollback and at   *)
(* columns up to one past the width, and the viewport is moved to the end  *)
(* between calls.  hist holds the arguments of the last call.              *)

PutRows == 0..MaxScrollback
PutCols == 0..MaxCols

PutInit == InitWith(1..MaxCols, 2..MaxRows)

PutCell ==
    \E row \in PutRows, col \in PutCols :
        /\ state' = [state EXCEPT
                        !.grid = put_cell(@, [DefaultCell EXCEPT !.ch = "a"], row, col)]
        /\ hist' = <<[row |-> row, col |-> col]>>
        /\ UNCHANGED <<pending_responses, fault, entry, session>>

PutViewportToEnd ==
    /\ state' = [state EXCEPT !.grid = viewport_to_end(@)]
    /\ hist' = <<>>
    /\ UNCHANGED <<pending_responses, fault, entry, session>>

PutNext ==
    \/ PutCell
    \/ PutViewportToEnd

PutSpec == PutInit /\ [][PutNext]_vars

----------------------------------------------------------------------------
(* KeySpec: keyboard events (renderer/input.rs, renderer/app.rs,           *)
(* renderer/mod.rs).  A key is [variant, named, chars]: a winit            *)
(* Key::Named, a Key::Character with its characters as ASCII codes, or     *)
(* another variant (Key::Dead).  Bytes are sequences of byte values.  The  *)
(* child toggles application cursor keys and bracketed paste between       *)
(* events; hist holds the last event and what the application did with it. *)

NamedKey(name) == [variant |-> "Named", named |-> name, chars |-> <<>>]
CharacterKey(chars) == [variant |-> "Character", named |-> "", chars |-> chars]
DeadKey == [variant |-> "Dead", named |-> "", chars |-> <<>>]

None == [some |-> FALSE, bytes |-> <<>>]
Some(bytes) == [some |-> TRUE, bytes |-> bytes]

is_ascii_alphabetic(ch) == ch \in 65..90 \/ ch \in 97..122
to_ascii_lowercase(ch) == IF ch \in 65..90 THEN ch + 32 ELSE ch

\* input::handle_keyboard_input: the bytes to send, or None
handle_keyboard_input(s, key, text, control) ==
    LET arrow(final) == IF s.application_cursor_keys
                        THEN Some(<<27, 79, final>>)
                        ELSE Some(<<27, 91, final>>)
        typed == IF text.some THEN Some(text.bytes) ELSE Some(key.chars)
    IN CASE key.variant = "Named" ->
              CASE key.named = "Enter" -> Some(<<13>>)
                [] key.named = "Backspace" -> Some(<<127>>)
                [] key.named = "Tab" -> Some(<<9>>)
                [] key.named = "Space" -> Some(<<32>>)
                [] key.named = "Escape" -> Some(<<27>>)
                [] key.named = "ArrowUp" -> arrow(65)
                [] key.named = "ArrowDown" -> arrow(66)
                [] key.named = "ArrowRight" -> arrow(67)
                [] key.named = "ArrowLeft" -> arrow(68)
                [] key.named = "Home" -> Some(<<27, 91, 72>>)
                [] key.named = "End" -> Some(<<27, 91, 70>>)
                [] key.named = "PageUp" -> Some(<<27, 91, 53, 126>>)
                [] key.named = "PageDown" -> Some(<<27, 91, 54, 126>>)
                [] key.named = "Delete" -> Some(<<27, 91, 51, 126>>)
                [] key.named = "Insert" -> Some(<<27, 91, 50, 126>>)
                [] OTHER -> None
         [] key.variant = "Character" ->
              IF Len(key.chars) = 1
              THEN IF control /\ is_ascii_alphabetic(key.chars[1])
                   THEN LET lower == to_ascii_lowercase(key.chars[1])
                        IN IF lower = 118 THEN None
                           ELSE Some(<<lower - 97 + 1>>)
                   ELSE typed
              ELSE typed
         [] OTHER -> None

\* the clipboard as handle_paste finds it: absent, unreadable, or holding
\* the text xy
Clipboards == {[kind |-> "None", text |-> <<>>], [kind |-> "Err", text |-> <<>>],
               [kind |-> "Ok", text |-> <<120, 121>>]}

\* input::handle_paste: the bytes written to the PTY
handle_paste(s, clipboard) ==
    IF clipboard.kind = "Ok"
    THEN IF s.bracketed_paste
         THEN <<27, 91, 50, 48, 48, 126>> \o clipboard.text
                  \o <<27, 91, 50, 48, 49, 126>>
         ELSE clipboard.text
    ELSE <<>>

\* App::handle_keyboard_input: None starts a paste and returns; otherwise
\* the bytes are written and the cursor blink is reset
App_handle_keyboard_input(key, text, control, clipboard) ==
    LET bytes == handle_keyboard_input(state, key, text, control)
    IN [key |-> key, text |-> text, control |-> control,
        encoded |-> bytes,
        paste |-> ~bytes.some,
        written |-> IF bytes.some THEN bytes.bytes ELSE handle_paste(state, clipboard),
        blink_reset |-> bytes.some]

Keys ==
    {NamedKey(name) : name \in {"Enter", "ArrowUp", "Home", "F1", "Shift"}}
        \cup {CharacterKey(chars) : chars \in {<<118>>, <<86>>, <<99>>, <<49>>, <<97, 98>>}}
        \cup {DeadKey}

\* the text winit reports with the key
Texts(key) ==
    {None} \cup (IF key.variant = "Character" THEN {Some(key.chars)} ELSE {})

KeyInit == InitWith({1}, {2})

KeyboardInput ==
    \E key \in Keys, control \in BOOLEAN, clipboard \in Clipboards :
        \E text \in Texts(key) :
            /\ hist' = <<App_handle_keyboard_input(key, text, control, clipboard)>>
            /\ UNCHANGED <<state, pending_responses, fault, entry, session>>

KeyMode == DoDecPrivate({1, 2004})

KeyNext ==
    \/ KeyboardInput
    \/ KeyMode

KeySpec == KeyInit /\ [][KeyNext]_vars

----------------------------------------------------------------------------
(* PumpSpec: one byte stream, split over pump calls.  A 2-row terminal of  *)
(* width 1 ingests up to MaxStream operations; between any two of them a   *)
(* call of process_output may end (viewport_to_end, responses drained and  *)
(* written).  hist is a record: ops holds the operations the current call  *)
(* has ingested, shown the viewport as the last call left it, written the  *)
(* responses written so far, count the length of the stream so far, and    *)
(* ref the emulator that ingests the same stream within a single call.     *)

MaxStream == 4

PumpOps ==
    {Edit("T", <<<<1>>>>), Edit("T", <<<<2>>>>), Edit("print", <<>>),
     Edit("LF", <<>>), Edit("n", <<<<6>>>>)}

PumpInit ==
    /\ state = TerminalState_new(1, 2)
    /\ pending_responses = <<>>
    /\ fault = "none"
    /\ entry = NoEntry
    /\ session = TerminalSession_new("Ok")
    /\ hist = [ops |-> <<>>,
               shown |-> get_viewport(TerminalState_new(1, 2).grid),
               written |-> <<>>,
               count |-> 0,
               ref |-> Terminal_new(1, 2)]

\* the loop of process_output ingests the next operation of the stream
PumpIngest ==
    /\ fault # "panic"
    /\ hist.ref.fault # "panic"
    /\ hist.count < MaxStream
    /\ \E op \in PumpOps :
          LET T == ApplyEdit(Term, op)
          IN /\ state' = T.state
             /\ pending_responses' = T.pending_responses
             /\ fault' = T.fault
             /\ hist' = [hist EXCEPT !.ops = Append(@, op),
                                     !.count = @ + 1,
                                     !.ref = ApplyEdit(@, op)]
    /\ UNCHANGED <<entry, session>>

\* the call that ingested data ends: viewport_to_end, then the responses
\* are drained and written
PumpCallEnds ==
    /\ fault # "panic"
    /\ hist.ops # <<>>
    /\ state' = [state EXCEPT !.grid = viewport_to_end(@)]
    /\ pending_responses' = <<>>
    /\ hist' = [hist EXCEPT !.ops = <<>>,
                            !.shown = get_viewport(viewport_to_end(state.grid)),
                            !.written = @ \o pending_responses]
    /\ UNCHANGED <<fault, entry, session>>

PumpNext ==
    \/ PumpIngest
    \/ PumpCallEnds

PumpSpec == PumpInit /\ [][PumpNext]_vars

----------------------------------------------------------------------------
(* Claims about the structure of the grid, checked under Spec.             *)

\* C1: after any sequence of ingested bytes, resizes and pump calls the
\* cursor is on a visible line:
\* viewport_start <= cursor.row < viewport_start + viewport_height.
C1_CursorOnVisibleLine ==
    /\ state.grid.viewport_start <= state.cursor.row
    /\ state.cursor.row < state.grid.viewport_start + state.grid.viewport_height

C3_NoOperationFails == fault = "none"

\* C4: every row of the primary screen and of the alternate screen has
\* exactly width cells.
C4_RowsHaveWidth ==
    /\ \A r \in 1..Len(state.grid.cells) :
          Len(state.grid.cells[r]) = state.grid.width
    /\ \A r \in 1..Len(state.grid.alternate_cells) :
          Len(state.grid.alternate_cells[r]) = state.grid.width

\* Delete Character has lengthened the active screen past the scrollback
\* cap while the other screen holds more rows than the viewport
C4_Witness ==
    /\ Len(state.grid.cells) > MaxScrollback
    /\ Len(state.grid.alternate_cells) > state.grid.viewport_height
    /\ state.grid.width = MaxCols

\* C5: while the primary screen is active its row count is within
\* [viewport_height, max_scrollback] and viewport_start within
\* [0, len(rows) - viewport_height].
C5_PrimaryBounds ==
    ~state.grid.use_alternate_screen =>
        /\ state.grid.viewport_height <= Len(state.grid.cells)
        /\ Len(state.grid.cells) <= MaxScrollback
        /\ state.grid.viewport_start >= 0
        /\ state.grid.viewport_start <= Len(state.grid.cells) - state.grid.viewport_height

\* C6: whenever the alternate screen is active it has exactly
\* viewport_height rows and viewport_start = 0.
C6_AlternateExact ==
    state.grid.use_alternate_screen =>
        /\ Len(state.grid.cells) = state.grid.viewport_height
        /\ state.grid.viewport_start = 0

\* C7: for viewport_height >= 2, 0 <= scroll_top < scroll_bottom <
\* viewport_height after any sequence of CSI r, screen switches and
\* resizes, and set_scroll_region with invalid margins changes neither.
C7_ScrollRegionValid ==
    /\ 0 <= state.grid.scroll_top
    /\ state.grid.scroll_top < state.grid.scroll_bottom
    /\ state.grid.scroll_bottom < state.grid.viewport_height
    /\ \A top \in 0..(MaxRows + 1), bottom \in 0..(MaxRows + 1) :
          ~(top < bottom /\ bottom < state.grid.viewport_height) =>
              LET g == set_scroll_region(state.grid, top, bottom)
              IN /\ g.scroll_top = state.grid.scroll_top
                 /\ g.scroll_bottom = state.grid.scroll_bottom

\* CSI r has set margins narrower than the screen
C7_Witness ==
    /\ state.grid.scroll_bottom < state.grid.viewport_height - 1
    /\ state.grid.use_alternate_screen

\* C8: entering the alternate screen, ingesting any bytes that do not
\* switch screens, and leaving it leaves every primary-screen cell, the
\* primary row count and the primary viewport_start as they were before
\* entry.
C8_PrimaryRestored ==
    entry.left =>
        /\ ~state.grid.use_alternate_screen
        /\ state.grid.cells = entry.cells
        /\ state.grid.viewport_start = entry.viewport_start

\* the primary screen held text and scrollback on entry, and the alternate
\* screen was written and lengthened before it was left
C8_Witness ==
    /\ entry.left
    /\ Len(entry.cells) > state.grid.viewport_height
    /\ entry.viewport_start > 0
    /\ \E r \in 1..Len(entry.cells) : entry.cells[r][1].ch = "a"
    /\ Len(state.grid.alternate_cells) > state.grid.viewport_height
    /\ \E r \in 1..Len(state.grid.alternate_cells) :
           state.grid.alternate_cells[r][1].ch = "a"

C10_ZeroIsOmitted ==
    \A kind \in RecognisedCsi, fields \in FieldLists :
        \A i \in 1..Len(fields) :
            fields[i] = <<0>> =>
                \A without \in Omitted(fields, i) :
                    Outcome(kind, fields) = Outcome(kind, without)

\* C10, amended: for every recognised CSI command but SGR (CSI m), a
\* parameter value of 0 gives the same state and responses as omitting
\* that parameter, and as writing the command's default; for SGR a 0 gives
\* the same as an empty field, and CSI 0 m the same as CSI m.
C10_ZeroIsDefault ==
    /\ \A kind \in RecognisedCsi \ {<<"m", <<>>>>}, fields \in FieldLists :
           \A i \in 1..Len(fields) :
               fields[i] = <<0>> =>
                   /\ \A without \in Omitted(fields, i) :
                          Outcome(kind, fields) = Outcome(kind, without)
                   /\ Outcome(kind, fields) =
                          Outcome(kind, [fields EXCEPT ![i] = <<DefaultOf(kind, i)>>])
    /\ \A fields \in FieldLists :
           \A i \in 1..Len(fields) :
               fields[i] = <<0>> =>
                   Outcome(<<"m", <<>>>>, fields) =
                       Outcome(<<"m", <<>>>>, [fields EXCEPT ![i] = <<>>])
    /\ Outcome(<<"m", <<>>>>, <<<<0>>>>) = Outcome(<<"m", <<>>>>, <<>>)

\* CSI 0 A was the last sequence with a zero: the cursor left the second
\* row, where an a was printed, for the first
C10_Witness ==
    /\ hist = <<(<<"A", <<>>>>)>>
    /\ state.grid.cells[state.grid.viewport_start + 2][1].ch = "a"
    /\ state.cursor.row = 0
    /\ state.cursor.col = 1

C12_SameSizeResize ==
    [][(hist = <<>> /\ hist' # <<>>) =>
          /\ state'.grid.cells = state.grid.cells
          /\ state'.grid.alternate_cells = state.grid.alternate_cells
          /\ state'.grid.width = state.grid.width
          /\ state'.grid.viewport_height = state.grid.viewport_height
          /\ state'.grid.scroll_top = 0
          /\ state'.grid.scroll_bottom = state.grid.viewport_height - 1]_vars

\* the resize found narrowed margins, text and scrollback on the primary
\* screen, and the margins are the full screen again
C12_Witness ==
    /\ hist # <<>>
    /\ hist[1].scroll_bottom < state.grid.viewport_height - 1
    /\ state.grid.scroll_top = 0
    /\ state.grid.scroll_bottom = state.grid.viewport_height - 1
    /\ ~state.grid.use_alternate_screen
    /\ Len(state.grid.cells) > state.grid.viewport_height
    /\ \E r \in 1..Len(state.grid.cells) : state.grid.cells[r][1].ch = "a"

----------------------------------------------------------------------------
(* Claims about the session, checked under SessionSpec.                    *)

\* the responses handed to Shell::write so far, in order
Written == [i \in 1..Len(hist.attempts) |-> hist.attempts[i].response]

\* the writes of the current call of process_output (of the last call, when
\* none is running)
CallAttempts == SubSeq(hist.attempts, hist.call_from + 1, Len(hist.attempts))

\* C13: whenever no call of process_output is running, the responses the
\* session has written to the master are exactly the responses the emulator
\* generated, in the order their commands were processed, each one once.
C13_ResponsesWrittenOnce ==
    session.pump.pc = "idle" => Written = hist.generated

\* C14: within one call of process_output a chunk is ingested only while
\* that call has not yet handed any response to Shell::write.
C14_ParseBeforeWrite ==
    [][hist'.ingested # hist.ingested => Len(hist.attempts) = hist.call_from]_vars

C14_Witness ==
    /\ session.pump.pc = "write"
    /\ Len(hist.ingested) = hist.call_took + 2
    /\ Len(CallAttempts) = 1
    /\ session.pump.responses # <<>>
    /\ session.sh.channel # <<>>

\* C15 (as claimed): the row and column of a cursor position report written
\* by a call of process_output equal the cursor position after all bytes of
\* that call were processed.
C15_CprAfterBatch ==
    (session.pump.pc = "idle" /\ session.pump.result = "Running") =>
        \A i \in 1..Len(CallAttempts) :
            CallAttempts[i].response.kind = "CPR" =>
                /\ CallAttempts[i].response.a = state.cursor.row + 1
                /\ CallAttempts[i].response.b = state.cursor.col + 1

\* C15 (amended): a cursor position report carries the one-based cursor
\* position at the moment its CSI 6 n was dispatched, and it is written
\* only after the call of process_output has ingested its last chunk.
C15_CprAtDispatch ==
    /\ \A i \in 1..Len(hist.attempts) :
          hist.attempts[i].response.kind = "CPR" =>
              /\ hist.attempts[i].response.a = hist.generated_at[i].row + 1
              /\ hist.attempts[i].response.b = hist.generated_at[i].col + 1
    /\ session.pump.pc = "recv" => Len(hist.attempts) = hist.call_from

C15_Witness ==
    /\ session.pump.pc = "idle"
    /\ session.pump.result = "Running"
    /\ Len(hist.ingested) = hist.call_took + 2
    /\ CallAttempts = <<[response |-> [kind |-> "CPR", a |-> 1, b |-> 1], ok |-> TRUE]>>
    /\ state.cursor.row = 1

IsPrefix(s, t) == Len(s) <= Len(t) /\ s = SubSeq(t, 1, Len(s))

\* C16: the emulator ingests the chunks in the order the reader read them,
\* each chunk once (the ingested chunks are a prefix of the chunks read, and
\* the reader read the chunks in the order the child wrote them); when
\* process_output has returned Exited, every chunk the reader read before
\* the end of the stream has been ingested.
C16_FifoThenExited ==
    /\ IsPrefix(hist.ingested, hist.read_log)
    /\ hist.read_log = [i \in 1..Len(hist.read_log) |-> i]
    /\ session.pump.result = "Exited" => hist.ingested = hist.read_log

C16_Witness ==
    /\ session.pump.pc = "idle"
    /\ session.pump.result = "Exited"
    /\ session.pump.has_data
    /\ hist.call_took = 1
    /\ hist.ingested = <<1, 2, 3>>

\* C17 (as claimed): every call of process_output that ingested at least one
\* chunk, the call that returns Exited included, ends with the viewport at
\* the end of the rows, every pending response written and the response
\* queue empty.
C17_PumpEndsSettled ==
    (session.pump.pc = "idle" /\ session.pump.has_data) =>
        /\ state.grid.viewport_start =
               Max(0, Len(state.grid.cells) - state.grid.viewport_height)
        /\ pending_responses = <<>>
        /\ session.pump.responses = <<>>
        /\ Written = hist.generated

\* C18 (as claimed): a session without a shell is never obtained from a
\* successful TerminalSession::new, and process_output never reports Running
\* for it.
C18_NoSessionWithoutShell ==
    session.shell = "none" =>
        /\ session.new_result # "Ok"
        /\ session.pump.result # "Running"

\* C19 (as claimed): once the session is dropped the master FD is closed
\* (no reference to it is left), and the reader thread eventually ends.
C19_DropStopsReader ==
    /\ [](session.shell = "dropped" => session.sh.master_refs = {})
    /\ (session.shell = "dropped") ~> (session.sh.reader_pc \in {"done", "none"})

\* C20: a step in which Shell::write fails changes the session exactly as a
\* successful write does: the response leaves the drained list, nothing is
\* put back into the queue and the call goes on; and a call of
\* process_output in which a write failed ends with result Running, the
\* queue empty, no drained response left, and every response attempted once.
C20_WriteFailureOnlyLogged ==
    /\ [][(Len(hist'.attempts) = Len(hist.attempts) + 1
            /\ ~hist'.attempts[Len(hist'.attempts)].ok) =>
              /\ session' = [session EXCEPT !.pump.responses = Tail(@)]
              /\ session'.pump.pc = "write"
              /\ UNCHANGED <<state, pending_responses>>]_vars
    /\ []((session.pump.pc = "idle"
            /\ \E i \in 1..Len(CallAttempts) : ~CallAttempts[i].ok) =>
              /\ session.pump.result = "Running"
              /\ pending_responses = <<>>
              /\ session.pump.responses = <<>>
              /\ Written = hist.generated)

C20_Witness ==
    /\ session.pump.pc = "idle"
    /\ session.pump.result = "Running"
    /\ Len(CallAttempts) = 2
    /\ ~CallAttempts[1].ok
    /\ CallAttempts[2].ok
    /\ CallAttempts[1].response # CallAttempts[2].response

----------------------------------------------------------------------------
(* Claims about single operations, checked under LineSpec and CellSpec.    *)

\* C21 (as claimed): a line feed ingested while the cursor is on the bottom
\* visible line scrolls the screen up by one: visible line k takes the
\* former content of line k + 1, the bottom visible line becomes default
\* cells, and the cursor stays on the bottom visible line, column unchanged.
C21_LineFeedScrolls ==
    [][(/\ Edited
        /\ hist'[1].kind = "LF"
        /\ state.cursor.row = state.grid.viewport_start + state.grid.viewport_height - 1) =>
          LET before == get_viewport(state.grid)
              after  == get_viewport(state'.grid)
              vh     == state.grid.viewport_height
          IN /\ \A k \in 1..(vh - 1) : after[k] = before[k + 1]
             /\ after[vh] = BlankRow(state.grid.width)
             /\ state'.cursor.row = state'.grid.viewport_start + vh - 1
             /\ state'.cursor.col = state.cursor.col]_vars

\* C22 (as claimed): a character printed while the cursor is past the last
\* column: with AutoWrap on it is written at column 0 of the next row (the
\* line the cursor was on stays intact, directly above) and the cursor ends
\* at column 1 of that row; with AutoWrap off it overwrites column
\* width - 1 of the same row, nothing else changes, and the cursor ends at
\* column width - 1.
C22_PrintPastLastColumn ==
    [][(/\ Edited
        /\ hist'[1].kind = "print"
        /\ state.cursor.col >= state.grid.width) =>
          LET old == state.grid.cells
              new == state'.grid.cells
              r   == state.cursor.row + 1
              r2  == state'.cursor.row + 1
              w   == state.grid.width
          IN IF state.auto_wrap
             THEN /\ r2 >= 2
                  /\ new[r2 - 1] = old[r]
                  /\ new[r2][1].ch = "b"
                  /\ state'.cursor.col = 1
             ELSE /\ Len(new) = Len(old)
                  /\ \A i \in 1..Len(old) : i # r => new[i] = old[i]
                  /\ \A j \in 1..(w - 1) : new[r][j] = old[r][j]
                  /\ new[r][w].ch = "b"
                  /\ state'.cursor.row = state.cursor.row
                  /\ state'.cursor.col = w - 1]_vars

\* C23 (as claimed): CSI n P with the cursor at (row, col), col < width, for
\* any viewport_start: in cells[cursor.row] the cells right of col + n - 1
\* move left by n and the last min(n, width - col) cells become default;
\* no other row is changed or created.
C23_DeleteCharacterInCursorRow ==
    [][(/\ Edited
        /\ hist'[1].kind = "P"
        /\ state.cursor.col < state.grid.width) =>
          LET old == state.grid.cells
              new == state'.grid.cells
              r   == state.cursor.row + 1
              col == state.cursor.col
              w   == state.grid.width
              n   == hist'[1].fields[1][1]
          IN /\ Len(new) = Len(old)
             /\ \A i \in 1..Len(old) : i # r => new[i] = old[i]
             /\ \A j \in 1..w :
                   new[r][j] = IF j <= col THEN old[r][j]
                               ELSE IF j + n <= w THEN old[r][j + n]
                               ELSE DefaultCell]_vars

\* the step ingests CSI n final while the cursor is on a visible line
LineOp(final) ==
    /\ Edited
    /\ hist'[1].kind = final
    /\ state.cursor.row >= state.grid.viewport_start
    /\ fault' = "none"

\* the viewport line of the cursor, the count of the sequence, and the
\* number of lines the operation acts on
OpRow == state.cursor.row - state.grid.viewport_start
OpCount == hist'[1].fields[1][1]
OpLines == Min(OpCount, state.grid.scroll_bottom - OpRow + 1)
InRegion == state.grid.scroll_top <= OpRow /\ OpRow <= state.grid.scroll_bottom

\* viewport line k of a row buffer, under the viewport of the step
Line(rows, k) == rows[state.grid.viewport_start + k + 1]

\* the rows that follow the bottom line of the scrolling region
BelowRegion(rows) ==
    SubSeq(rows, state.grid.viewport_start + state.grid.scroll_bottom + 2, Len(rows))

\* C24 (as claimed): insert_lines(row, count) with row inside the region and
\* c = min(count, scroll_bottom - row + 1): the c rows at the bottom of the
\* region are discarded (what follows the region is what followed it
\* before), lines row..scroll_bottom-c move down by c, and lines
\* row..row+c-1 become default rows.
C24_InsertLines ==
    [][(LineOp("L") /\ InRegion) =>
          LET old == state.grid.cells
              new == state'.grid.cells
          IN /\ BelowRegion(new) = BelowRegion(old)
             /\ \A k \in OpRow..(state.grid.scroll_bottom - OpLines) :
                   Line(new, k + OpLines) = Line(old, k)
             /\ \A k \in OpRow..(OpRow + OpLines - 1) :
                   Line(new, k) = BlankRow(state.grid.width)]_vars

\* C25 (as claimed): delete_lines(row, count) with row inside the region and
\* c = min(count, scroll_bottom - row + 1): lines row..row+c-1 are removed,
\* lines row+c..scroll_bottom move up by c, and the c lines
\* scroll_bottom-c+1..scroll_bottom become default rows.
C25_DeleteLines ==
    [][(LineOp("M") /\ InRegion) =>
          LET old == state.grid.cells
              new == state'.grid.cells
              bottom == state.grid.scroll_bottom
          IN /\ Len(new) >= state.grid.viewport_start + bottom + 1
             /\ \A k \in OpRow..(bottom - OpLines) :
                   Line(new, k) = Line(old, k + OpLines)
             /\ \A k \in (bottom - OpLines + 1)..bottom :
                   Line(new, k) = BlankRow(state.grid.width)]_vars

\* C26 (as claimed): insert_lines and delete_lines leave every row outside
\* viewport lines row..scroll_bottom unchanged and keep the row count of
\* the screen; with row outside the region they change nothing.
C26_LinesFrame ==
    [][(LineOp("L") \/ LineOp("M")) =>
          LET old == state.grid.cells
              new == state'.grid.cells
              first == state.grid.viewport_start + OpRow + 1
              last  == state.grid.viewport_start + state.grid.scroll_bottom + 1
          IN IF InRegion
             THEN /\ Len(new) = Len(old)
                  /\ \A i \in 1..Len(old) : (i < first \/ i > last) => new[i] = old[i]
             ELSE state'.grid = state.grid]_vars

\* parameter field i of the ingested sequence is missing, empty or zero
NoField(i) == Len(hist'[1].fields) < i \/ hist'[1].fields[i] \in {<<>>, <<0>>}

\* C27 (as claimed): CSI r with both parameters missing or zero resets the
\* scrolling region to the full screen whatever region was set before;
\* with the bottom parameter missing the bottom margin is the last line of
\* the viewport; the cursor moves to the home position.
C27_RegionReset ==
    [][(Edited /\ hist'[1].kind = "r") =>
          LET g  == state.grid
              g2 == state'.grid
          IN /\ state'.cursor.row = g2.viewport_start
             /\ state'.cursor.col = 0
             /\ NoField(2) =>
                   LET top == IF NoField(1) THEN 0 ELSE hist'[1].fields[1][1] - 1
                   IN IF top < g.viewport_height - 1
                      THEN g2.scroll_top = top /\ g2.scroll_bottom = g.viewport_height - 1
                      ELSE g2.scroll_top = g.scroll_top /\ g2.scroll_bottom = g.scroll_bottom]_vars

\* C28 (as claimed): CSI 3 J erases the whole display and the scrollback:
\* afterwards every viewport cell is default and no row above the viewport
\* keeps earlier content.
C28_EraseScrollback ==
    [][(Edited /\ hist'[1].kind = "J" /\ hist'[1].fields = <<<<3>>>>) =>
          LET g2 == state'.grid
          IN /\ \A i \in 1..Len(get_viewport(g2)) :
                   get_viewport(g2)[i] = BlankRow(g2.width)
             /\ \A i \in 1..g2.viewport_start :
                   g2.cells[i] = BlankRow(g2.width)]_vars

\* C29 (as claimed): CSI 1 J replaces with default cells exactly the cells
\* from the top-left of the visible screen through the cursor position;
\* rows above the viewport and every cell after the cursor are unchanged,
\* and the cursor does not move.
C29_EraseToCursor ==
    [][(/\ Edited
        /\ hist'[1].kind = "J"
        /\ hist'[1].fields = <<<<1>>>>
        /\ state.cursor.row >= state.grid.viewport_start) =>
          LET old == state.grid.cells
              new == state'.grid.cells
              top == state.grid.viewport_start + 1
              r   == state.cursor.row + 1
              Erased(i, j) == i >= top /\ (i < r \/ (i = r /\ j <= state.cursor.col + 1))
          IN /\ Len(new) = Len(old)
             /\ \A i \in 1..Len(old) : \A j \in 1..state.grid.width :
                   new[i][j] = IF Erased(i, j) THEN DefaultCell ELSE old[i][j]
             /\ state'.cursor = state.cursor]_vars

----------------------------------------------------------------------------
(* Claim about extended colours, checked under SgrSpec.                    *)

\* the colour a specification 5;i or 2;r;g;b denotes
SgrColour(colour) ==
    IF colour[1] = 5 THEN Color_from_ansi_index(colour[2])
    ELSE <<colour[2], colour[3], colour[4]>>

\* C30 (as claimed): an extended colour written with ':' sets the same
\* colour as the same sequence written with ';' (the state after the step
\* is the state the ';' form gives), the colour is the one specified, and a
\* code that follows the colour is applied as an ordinary code.
C30_ColonAsSemicolon ==
    [][(Len(hist') = 1 /\ hist'[1].form = "colon") =>
          LET op == hist'[1]
              semicolon == [op EXCEPT !.form = "semicolon"]
              T == csi_dispatch(Term, vte_params(SgrFields(semicolon)), <<>>, "m")
          IN /\ state' = T.state
             /\ op.trailing # <<0>> =>
                   IF op.target = 38 THEN state'.fg = SgrColour(op.colour)
                   ELSE state'.bg = SgrColour(op.colour)
             /\ op.trailing = <<1>> => state'.bold
             /\ op.trailing = <<4>> => state'.underline]_vars

----------------------------------------------------------------------------
(* Claims about attributes and resets, checked under AttrSpec.             *)

\* the attributes of a fresh emulator
AttrsDefault(s) ==
    /\ s.fg = white /\ s.bg = black
    /\ ~s.bold /\ ~s.italic /\ ~s.underline /\ ~s.reverse

\* the one cell of the screen
TheCell == state.grid.cells[1][1]

\* C31: after SGR 0, and after SGR with no parameters, the foreground is
\* white, the background black, and bold, italic, underline and reverse
\* are false, whatever they were before.
C31_SgrReset ==
    (hist # <<>> /\ hist[1].kind = "m" /\ hist[1].fields \in ResetFields)
        => AttrsDefault(state)

\* CSI m was ingested last; the cell printed earlier shows that every flag
\* and both colours had been set
C31_Witness ==
    /\ hist = <<Edit("m", <<>>)>>
    /\ TheCell.bold /\ TheCell.italic /\ TheCell.underline /\ TheCell.reverse
    /\ TheCell.fg = Color_from_ansi_index(2)
    /\ TheCell.bg = Color_from_ansi_index(1)
    /\ AttrsDefault(state)

\* C32: print stores in the cell it writes the current bold, italic,
\* underline and reverse flags, with foreground and background swapped
\* exactly when reverse is active; an SGR sequence changes no cell of the
\* grid.
C32_PrintStoresAttributes ==
    [][hist' # <<>> =>
         /\ hist'[1].kind = "print" =>
               LET written == state'.grid.cells
                                 [state'.grid.viewport_start + state'.cursor.row + 1]
                                 [state'.cursor.col]
               IN /\ written.bold = state.bold
                  /\ written.italic = state.italic
                  /\ written.underline = state.underline
                  /\ written.reverse = state.reverse
                  /\ written.fg = (IF state.reverse THEN state.bg ELSE state.fg)
                  /\ written.bg = (IF state.reverse THEN state.fg ELSE state.bg)
         /\ hist'[1].kind = "m" => state'.grid = state.grid]_vars

\* reverse was cleared last, and the cell printed in reverse red on green
\* still holds the swapped colours and its flag
C32_Witness ==
    /\ hist = <<Edit("m", <<<<27>>>>)>>
    /\ ~state.reverse
    /\ TheCell.ch = "b" /\ TheCell.reverse /\ TheCell.bold
    /\ TheCell.fg = Color_from_ansi_index(2)
    /\ TheCell.bg = Color_from_ansi_index(1)

\* C33: after ESC c the cursor and the emulator state other than the grid
\* (colours, attribute flags, mode flags) are those of a fresh emulator.
C33_FullReset ==
    hist = <<Edit("ESC c", <<>>)>> =>
        \A f \in DOMAIN state \ {"grid"} : state[f] = Fresh[f]

----------------------------------------------------------------------------
(* Claims about unknown and marked sequences, checked under SeqSpec.       *)

\* the step left grid, cursor, attributes, mode flags and response queue
\* as they were
NothingChanged ==
    /\ state' = state
    /\ pending_responses' = pending_responses
    /\ fault' = fault

\* C34: a CSI sequence whose final byte is not a recognised command, and a
\* DEC private set or reset of an unknown or unimplemented mode number,
\* leaves grid, cursor, attributes, mode flags and response queue
\* unchanged, so that what follows is processed as if it had not been
\* there.
C34_UnknownIgnored ==
    [][(hist' # <<>> /\ hist'[1] \in UnknownSeqs) => NothingChanged]_vars

\* CSI ? 9999 h was ingested last by an emulator that had printed, set
\* bold, hidden the cursor and queued a response
C34_Witness ==
    /\ hist = <<Sequence(<<"?">>, "h", <<<<9999>>>>)>>
    /\ state.grid.cells[1][1].ch = "b"
    /\ state.bold /\ ~state.show_cursor /\ ~state.bracketed_paste
    /\ state.cursor.row = 1
    /\ Len(pending_responses) = 1

\* C40: a CSI sequence with a private marker '<', '=' or '>', other than
\* CSI > c, changes no attribute, colour, cursor position, grid cell or
\* mode flag and queues no response.
C40_MarkedIgnored ==
    [][(hist' # <<>> /\ hist'[1] \in MarkedSeqs \ {Sequence(<<">">>, "c", <<>>)})
          => NothingChanged]_vars

----------------------------------------------------------------------------
(* Claim about put_cell, checked under PutSpec.                            *)

\* C35: put_cell(cell, row, col) with col >= width changes nothing, for
\* every row, row >= len(rows) included: no cell, not the number of rows,
\* not viewport_start.
C35_PutCellPastWidth ==
    [][(hist' # <<>> /\ hist'[1].col >= state.grid.width)
          => state'.grid = state.grid]_vars

----------------------------------------------------------------------------
(* Claim about keyboard events, checked under KeySpec.                     *)

\* the event is Ctrl+V
IsCtrlV(event) ==
    /\ event.control
    /\ event.key.variant = "Character"
    /\ Len(event.key.chars) = 1
    /\ to_ascii_lowercase(event.key.chars[1]) = 118

\* C36: the keyboard encoder returns None only for Ctrl+V, so a paste is
\* started only on Ctrl+V; every other key event writes the encoded bytes
\* or nothing to the PTY.
C36_PasteOnlyOnCtrlV ==
    hist # <<>> =>
        /\ ~hist[1].encoded.some => IsCtrlV(hist[1])
        /\ hist[1].paste => IsCtrlV(hist[1])
        /\ ~IsCtrlV(hist[1]) => hist[1].written \in {<<>>, hist[1].encoded.bytes}

----------------------------------------------------------------------------
(* Claims about pump calls, checked under PumpSpec.                        *)

\* C37: after a pump call that ingested CSI n T, n <= viewport_height, the
\* viewport shows n default rows followed by the lines that were visible
\* before, line k at line k + n.
C37_ScrollDownShown ==
    [][\A n \in 1..state.grid.viewport_height :
          (hist.ops = <<Edit("T", <<<<n>>>>)>> /\ hist'.ops = <<>>)
              => get_viewport(state'.grid) =
                    [i \in 1..n |-> BlankRow(state.grid.width)]
                        \o SubSeq(hist.shown, 1, state.grid.viewport_height - n)]_vars

\* C38: when a pump call has ended, the emulator and the responses written
\* are those of the emulator that ingested the whole stream in one call.
C38_SplitIndependent ==
    (hist.ops = <<>> /\ hist.count > 0) =>
        /\ state = [hist.ref.state EXCEPT !.grid = viewport_to_end(@)]
        /\ hist.written = hist.ref.pending_responses
        /\ fault = hist.ref.fault

----------------------------------------------------------------------------
(* Claim about calls after Exited, checked under SessionSpec.              *)

\* C39: once a call of process_output has returned Exited, every later call
\* returns Exited too (it goes from its first try_recv straight to the
\* return) and no step changes the grid, the cursor or the response queue.
C39_ExitedForGood ==
    [][hist.exits > 0 =>
          /\ state' = state
          /\ pending_responses' = pending_responses
          /\ session'.pump.pc \in {"idle", "recv"}
          /\ session'.pump.result \in {"none", "Exited"}]_vars

\* a second call has returned Exited, on an emulator that had ingested
\* three chunks and holds text
C39_Witness ==
    /\ hist.exits = 2
    /\ session.pump.pc = "idle"
    /\ session.pump.result = "Exited"
    /\ Len(hist.ingested) = 3
    /\ \E r \in 1..Len(state.grid.cells) : state.grid.cells[r][1].ch = "a"

=============================================================================
